---------------------------- MODULE Spec2Model ----------------------------
(***************************************************************************)
(* A model of the operational kernel of the train traffic control system:  *)
(*   - the digital twin (src/sim/national_replay.py),                      *)
(*   - the conflict radar and its validation (src/sim/risk.py),            *)
(*   - apply-and-validate (src/sim/apply_plan.py, src/model/section_graph),*)
(* Time is counted in ticks of 1/TicksPerMin minute so that a speed factor *)
(* given in twentieths scales whole-minute run times exactly.              *)
(***************************************************************************)
EXTENDS Integers, Sequences, FiniteSets, TLC

\* ------------------------------------------------------------------ time
TicksPerMin == 20
Min(m) == m * TicksPerMin

\* pd.NaT: a missing timestamp; pd.Timestamp.min: earlier than every time.
NaT == -999999
TsMin == -1000000
isna(t) == t = NaT
notna(t) == t # NaT
Max2(a, b) == IF b > a THEN b ELSE a
Min2(a, b) == IF b < a THEN b ELSE a

\* ------------------------------------------------------------ the inputs
TrainOrder == <<"T1", "T2">>
Trains == { TrainOrder[i] : i \in 1..Len(TrainOrder) }
TrainIdx(t) == CHOOSE i \in 1..Len(TrainOrder) : TrainOrder[i] = t
\* Stations and blocks, in the order of their identifiers.
StationOrder == <<"S1", "S2", "S3">>
Stations == { StationOrder[i] : i \in 1..Len(StationOrder) }
BlockOrder == <<"B12", "B23">>
BlockIds == { BlockOrder[i] : i \in 1..Len(BlockOrder) }

\* The values the input tables are drawn from (whole minutes).
LateDep == 12
LongHeadway == 5
LateSchedDep == 30

\* section_edges: block_id -> u, v, min_run_time, headway, capacity.
EdgeTables ==
  { [b \in BlockIds |->
       [u |-> IF b = "B12" THEN "S1" ELSE "S2",
        v |-> IF b = "B12" THEN "S2" ELSE "S3",
        min_run_time |-> IF b = "B12" THEN Min(10) ELSE Min(4),
        headway |-> h,
        capacity |-> IF b = "B12" THEN c ELSE 1]]
    : h \in {0, Min(LongHeadway)}, c \in {1, 2} }

\* section_nodes: station_id -> platforms, min_dwell_min, route_setup_min.
\* The table may also hold no station at all.
NodeTables ==
  { [s \in Stations |->
       [platforms |-> p, min_dwell_min |-> Min(2), route_setup_min |-> Min(1)]]
    : p \in {1, 2} }
  \cup { << >> }

Routes == { <<"S1", "S2">>, <<"S1", "S2", "S3">>, <<"S2", "S3">> }
OriginDeps == { Min(0), Min(2), Min(LateDep) }
Quirks == { "plain", "act", "late_arr", "sched_dep" }

\* The event rows of one train: the origin has a scheduled departure; the
\* quirk adds observed times ("act": act_dep at the origin and act_arr at the
\* second stop, 5 minutes apart; "late_arr": an observed late arrival at the
\* second stop) or a scheduled departure at the second stop.
TrainRows(tid, route, odep, quirk) ==
  { [train_id |-> tid, stop_seq |-> i, station_id |-> route[i],
     sched_arr |-> NaT,
     sched_dep |-> IF i = 1 THEN odep
                   ELSE IF i = 2 /\ quirk = "sched_dep" THEN Min(LateSchedDep)
                   ELSE NaT,
     act_arr |-> IF i = 2 /\ quirk = "act" THEN odep + Min(6)
                 ELSE IF i = 2 /\ quirk = "late_arr" THEN odep + Min(14)
                 ELSE NaT,
     act_dep |-> IF i = 1 /\ quirk = "act" THEN odep + Min(1) ELSE NaT]
    : i \in 1..Len(route) }

\* T1 leaves first (or second by a minute when its departure is observed);
\* T2 is drawn from every route and departure time.  The table may also hold
\* no row at all.
EventTables ==
  { [t \in Trains |->
       IF t = "T1" THEN TrainRows(t, r1, Min(0), q1) ELSE TrainRows(t, r2, d2, q2)]
    : r1 \in Routes \ { <<"S2", "S3">> }, q1 \in Quirks,
      r2 \in Routes, d2 \in OriginDeps, q2 \in Quirks }
  \cup { [t \in Trains |-> {}] }

\* per_train_speed: (train, block) -> factor, in twentieths (18 = 0.9).
SpeedMaps ==
  { <<>>,
    [k \in {<<"T2", "B12">>} |-> 18],
    [k \in {<<"T2", "B12">>} |-> 10] }

\* platform_override: (train, station) -> slot index (0-based).
PlatformOverrides ==
  { <<>>, [k \in {<<"T2", "S2">>} |-> 1] }

\* rec_plan: the plans handed to apply_and_validate; a field an action does
\* not carry is None.
None == "None"
NoneSlot == -1
HoldMin == 3
PlanAction(type, tid, sid, minutes, bid, fac, plat) ==
  [type |-> type, train_id |-> tid, at_station |-> sid, station_id |-> sid,
   minutes |-> minutes, block_id |-> bid, speed_factor |-> fac, platform |-> plat]
Plans ==
  { << >>,
    << PlanAction("HOLD", "T2", "S1", Min(HoldMin), None, 20, NoneSlot) >>,
    << PlanAction("SPEED_TUNE", "T2", None, 0, "B12", 18, NoneSlot) >>,
    << PlanAction("PLATFORM_REASSIGN", "T2", "S2", 0, None, 20, 1) >> }

\* horizon_min of an analysis, and the optional frames handed to analyze:
\* none, the platform occupancy, or the platform occupancy and the waiting
\* ledger.
Horizons == { Min(10), Min(60) }
AnalyzeInputs == { "none", "platform", "both" }

\* ------------------------------------------------------------ the state
VARIABLES
  edges, nodes, events,                                       \* input tables
  per_train_speed, platform_override,                         \* run's options
  rec_plan,          \* the plan handed to apply_and_validate
  caller,            \* who called replay: "run" or "apply_and_validate"
  graph,             \* the SectionGraph handed to run
  pc,                \* init, trains, hops, done, analyzed, validated, raised
  phase,             \* of apply_and_validate: "before" or "after" the plan
  todo,              \* trains still to replay, in replay order
  train,             \* the train being replayed
  hops,              \* its hops still to replay
  current_time,
  block_heap,        \* block_id -> slot -> next-available time
  plat_avail,        \* station_id -> slot -> next-free time
  block_records, platform_records, waits,
  radar,             \* the risks analyze returned
  horizon,           \* t0, t1 and the optional inputs of that analysis
  validation,        \* what validate returned
  kwargs,            \* the keyword arguments of a call of propose
  proposal,          \* what propose returned
  engine_cfg,        \* RuntimeEngine.cfg
  state,             \* RuntimeEngine.state: last_plan, last_risks, twin_snapshot
  artifacts,         \* whether the artifact files of the engine's scope exist
  thread_alive,      \* RuntimeEngine._thread is running _run
  stop_set,          \* RuntimeEngine._stop
  ticks,             \* the number of _recompute calls so far
  seen,              \* the artifacts and config the last _recompute read
  raw,               \* the raw rows handed to to_train_events
  frame,             \* its data frame after parsing and rollover
  files,             \* the files of artifacts/<scope>/<date> the service keeps
  ENGINE,            \* whether the service's ENGINE global holds an engine
  workers,           \* the number of threads that run the service's handlers
  handler,           \* thread -> the decision handler it is in, with its locals
  response,          \* what the last finished handler returned
  decisions,         \* the number of decision calls that returned normally
  live_file,         \* FileDropAdapter.path: the file of JSON lines it watches
  offset,            \* FileDropAdapter.offset
  breaker,           \* BaseAdapter.breaker: fail_count, open_until
  deduper,           \* BaseAdapter.deduper: keys, set
  emitted,           \* the event keys handed to emit, in order
  now,               \* time.time()
  view,              \* what a reader thread last read of the engine's state
  published,         \* the states the engine's completed ticks left
  station_map_csv,   \* the station map file: its rows, as text
  name_to_id,        \* what _ensure_station_map returned last
  locks_state,       \* the file locks_state.json of the service's directory
  latest_lock,       \* (type, id) -> what the last lock posted for it said
  loop,              \* the threads start() made: where each is in _run
  ctl                \* the caller of start() and stop(): where it is

replayVars ==
  << edges, nodes, events, per_train_speed, platform_override, rec_plan,
     caller, graph, pc, phase, todo, train, hops, current_time, block_heap, plat_avail,
     block_records, platform_records, waits, radar, horizon, validation >>

optVars == << kwargs, proposal >>
engineVars == << engine_cfg, state, artifacts, thread_alive, stop_set, ticks, seen >>
normVars == << raw, frame >>
serverVars == << files, ENGINE, workers, handler, response, decisions >>
adapterVars == << live_file, offset, breaker, deduper, emitted, now >>
readerVars == << view, published >>
mapVars == << station_map_csv, name_to_id >>
lockVars == << locks_state, latest_lock >>
loopVars == << loop, ctl >>
moreVars == << mapVars, lockVars, loopVars >>
extVars == << serverVars, adapterVars, readerVars, moreVars >>
otherVars == << optVars, engineVars, normVars, extVars >>

vars == << replayVars, otherVars >>

\* The variables of the optimiser, the engine and the normaliser while none
\* of them is in use.
OptIdle == kwargs = << >> /\ proposal = << >>
EngineIdle ==
  /\ engine_cfg = << >>
  /\ state = << >>
  /\ artifacts = FALSE
  /\ thread_alive = FALSE
  /\ stop_set = FALSE
  /\ ticks = 0
  /\ seen = << >>
NormIdle == raw = << >> /\ frame = << >>
ServerIdle ==
  /\ files = << >>
  /\ ENGINE = FALSE
  /\ workers = 0
  /\ handler = << >>
  /\ response = << >>
  /\ decisions = 0
AdapterIdle ==
  /\ live_file = << >>
  /\ offset = 0
  /\ breaker = << >>
  /\ deduper = << >>
  /\ emitted = << >>
  /\ now = 0
ReaderIdle == view = << >> /\ published = {}
MapIdle == station_map_csv = << >> /\ name_to_id = << >>
LockIdle == locks_state = << >> /\ latest_lock = << >>
LoopIdle == loop = << >> /\ ctl = << >>
MoreIdle == MapIdle /\ LockIdle /\ LoopIdle
ExtIdle == ServerIdle /\ AdapterIdle /\ ReaderIdle /\ MoreIdle

\* ------------------------------------------------------ the section graph
\* load_graph: the lookups it builds; station_attr holds (platforms, min_dwell).
load_graph(nodes_df, edges_df) ==
  [ block_attr |-> [b \in DOMAIN edges_df |->
        << edges_df[b].min_run_time, edges_df[b].headway, edges_df[b].capacity >>],
    pair_to_block |-> [p \in { <<edges_df[b].u, edges_df[b].v>> : b \in DOMAIN edges_df } |->
        CHOOSE b \in DOMAIN edges_df : <<edges_df[b].u, edges_df[b].v>> = p],
    station_attr |-> [s \in DOMAIN nodes_df |->
        << nodes_df[s].platforms, nodes_df[s].min_dwell_min >>] ]

\* A SectionGraph in the shape run reads: station_attr holds
\* (platforms, min_dwell, route_setup), as run's default (1, 2.0, 0.5) does.
SectionGraph(nodes_df, edges_df) ==
  [ load_graph(nodes_df, edges_df) EXCEPT
      !.station_attr = [s \in DOMAIN nodes_df |->
        << nodes_df[s].platforms, nodes_df[s].min_dwell_min,
           nodes_df[s].route_setup_min >>] ]

\* ------------------------------------------------------------ the replay
first_notna(ts) ==
  LET ix == { i \in 1..Len(ts) : notna(ts[i]) }
  IN  IF ix = {} THEN NaT ELSE ts[CHOOSE i \in ix : \A j \in ix : i <= j]

\* _sort_group: the rows of one train by stop_seq.
RECURSIVE sort_group(_)
sort_group(rows) ==
  IF rows = {} THEN << >>
  ELSE LET r == CHOOSE x \in rows : \A y \in rows : x.stop_seq <= y.stop_seq
       IN  << r >> \o sort_group(rows \ {r})

\* _itinerary_from_events, for one train: the consecutive stop pairs that are
\* blocks of the graph.
RECURSIVE hops_of(_, _, _)
hops_of(stops, g, i) ==
  IF i >= Len(stops) THEN << >>
  ELSE (IF <<stops[i], stops[i + 1]>> \in DOMAIN g.pair_to_block
          THEN << <<stops[i], stops[i + 1]>> >> ELSE << >>)
       \o hops_of(stops, g, i + 1)

itinerary_from_events(rows, g) ==
  LET grp == sort_group(rows)
  IN  hops_of([i \in 1..Len(grp) |-> grp[i].station_id], g, 1)

\* The station-wise scalar maps of run (first row of a station wins).
station_map(grp, sid, col) ==
  LET ix == { i \in 1..Len(grp) : grp[i].station_id = sid }
  IN  IF ix = {} THEN NaT ELSE grp[CHOOSE i \in ix : \A j \in ix : i <= j][col]

\* The initial time of a train: the earliest over its rows of the first known
\* of act_dep, sched_dep, act_arr, sched_arr.
dep0(rows) ==
  LET ts == { first_notna(<< r.act_dep, r.sched_dep, r.act_arr, r.sched_arr >>) : r \in rows }
           \ { NaT }
  IN  IF ts = {} THEN NaT ELSE CHOOSE t \in ts : \A x \in ts : t <= x

\* dep0.sort_values().index: by initial time, unknown times last, ties by id.
Before(ev, a, b) ==
  LET da == dep0(ev[a])
      db == dep0(ev[b])
  IN  \/ notna(da) /\ isna(db)
      \/ notna(da) /\ notna(db) /\ da < db
      \/ da = db /\ TrainIdx(a) < TrainIdx(b)

RECURSIVE replay_order(_, _)
replay_order(ev, ts) ==
  IF ts = {} THEN << >>
  ELSE LET t == CHOOSE a \in ts : \A b \in ts \ {a} : Before(ev, a, b)
       IN  << t >> \o replay_order(ev, ts \ {t})

\* A variant of _alloc_heap that takes the block at the requested time
\* without looking at the popped next-available time.
alloc_heap_at_request(heap, t_req) ==
  LET k == CHOOSE i \in DOMAIN heap :
             \A j \in DOMAIN heap : heap[i] < heap[j] \/ (heap[i] = heap[j] /\ i <= j)
  IN  [ start |-> t_req, wait |-> 0, k |-> k ]

\* _alloc_heap: pop the earliest next-available time of the block; k is the
\* track slot that time belonged to.
alloc_heap(heap, t_req) ==
  LET k == CHOOSE i \in DOMAIN heap :
             \A j \in DOMAIN heap : heap[i] < heap[j] \/ (heap[i] = heap[j] /\ i <= j)
      start == Max2(t_req, heap[k])
  IN  [ start |-> start, wait |-> Max2(0, start - t_req), k |-> k ]

\* _alloc_platform: slots are indexed from 0.
alloc_platform(slots, t_req, dwell_min, slot_idx) ==
  LET n == Cardinality(DOMAIN slots)
      idx == IF slot_idx = NoneSlot \/ ~(0 <= slot_idx /\ slot_idx < n)
               THEN CHOOSE i \in DOMAIN slots :
                      \A j \in DOMAIN slots : slots[i] < slots[j] \/ (slots[i] = slots[j] /\ i <= j)
               ELSE slot_idx
      start == Max2(t_req, slots[idx])
  IN  [ start |-> start, dep |-> start + dwell_min, slot |-> idx,
        wait |-> Max2(0, start - t_req),
        slots |-> [slots EXCEPT ![idx] = start + dwell_min] ]

override_of(tid, sid) ==
  IF <<tid, sid>> \in DOMAIN platform_override THEN platform_override[<<tid, sid>>]
  ELSE NoneSlot

\* A variant of the speed factor without the clamp to [0.8, 1.0].
speed_factor_unclamped(tid, bid) ==
  IF <<tid, bid>> \in DOMAIN per_train_speed THEN per_train_speed[<<tid, bid>>] ELSE 20

\* The SPEED_TUNE factor of a train on a block, in twentieths, clamped to
\* [0.8, 1.0]; 20 (no change) when there is none.
speed_factor(tid, bid) ==
  IF <<tid, bid>> \in DOMAIN per_train_speed
    THEN Max2(16, Min2(20, per_train_speed[<<tid, bid>>]))
    ELSE 20

\* run_min of a hop: the observed run when both endpoints have actual times,
\* else the edge's min_run_time; then scaled by the speed factor.
run_min_of(grp, tid, u, v, bid) ==
  LET arr_v_act == station_map(grp, v, "act_arr")
      dep_u_act == station_map(grp, u, "act_dep")
      base == IF notna(arr_v_act) /\ notna(dep_u_act)
                THEN Max2(0, arr_v_act - dep_u_act)
                ELSE graph.block_attr[bid][1]
  IN  (base * speed_factor(tid, bid)) \div 20

\* station_attr.get(sid, (1, 2.0, 0.5)).
station_attr_get(g, sid) ==
  IF sid \in DOMAIN g.station_attr THEN g.station_attr[sid]
  ELSE << 1, Min(2), Min(1) \div 2 >>

\* ------------------------------------------------------- the conflict radar
\* sort_values: the indices ix by key, ties in their original order.
RECURSIVE sort_values(_, _)
sort_values(ix, key) ==
  IF ix = {} THEN << >>
  ELSE LET i == CHOOSE a \in ix :
                  \A b \in ix : key[a] < key[b] \/ (key[a] = key[b] /\ a <= b)
       IN  << i >> \o sort_values(ix \ {i}, key)

_severity(minutes_to) ==
  IF minutes_to <= Min(5) THEN "Critical"
  ELSE IF minutes_to <= Min(30) THEN "High"
  ELSE IF minutes_to <= Min(120) THEN "Medium"
  ELSE "Low"

\* The pre-headway window of a block occupancy row.
pre_entry(r) == r.entry_time - r.headway_applied_min
pre_exit(r) == pre_entry(r) + (r.exit_time - r.entry_time)

\* The first entry of the list act (indices into rows) with the latest
\* pre_exit: max(active, key=lambda t: t[0])[1].
latest_active(rows, act) ==
  act[CHOOSE a \in 1..Len(act) :
        /\ \A b \in 1..Len(act) : pre_exit(rows[act[b]]) <= pre_exit(rows[act[a]])
        /\ \A b \in 1..(a - 1) : pre_exit(rows[act[b]]) < pre_exit(rows[act[a]])]

\* The sweep of analyze over the rows of one block (sorted by pre_entry),
\* from row i on, with the list active of the rows still in the block.
RECURSIVE block_sweep(_, _, _, _, _)
block_sweep(rows, i, active, e, w) ==
  IF i > Len(rows) THEN << >>
  ELSE
    LET row == rows[i]
        entry_i == pre_entry(row)
        exit_i == pre_exit(row)
        act == SelectSeq(active, LAMBDA j : pre_exit(rows[j]) > entry_i)
        in_w == w.t0 <= entry_i /\ entry_i <= w.t1
        minutes_to == Max2(0, entry_i - w.t0)
        capacity_risk ==
          IF Len(act) >= e.capacity /\ in_w
            THEN << [type |-> "block_capacity", block_id |-> e.block_id,
                     u |-> row.u, v |-> row.v,
                     train_ids |-> [k \in 1..Len(act) |-> rows[act[k]].train_id]
                                   \o << row.train_id >>,
                     time_window |-> << entry_i, exit_i >>,
                     severity |-> _severity(minutes_to), lead_min |-> minutes_to] >>
            ELSE << >>
        prev_j == latest_active(rows, act)
        prev_exit == pre_exit(rows[prev_j])
        required == prev_exit + e.headway
        headway_risk ==
          IF act # << >> /\ entry_i < required /\ in_w
            THEN << [type |-> "headway", block_id |-> e.block_id,
                     u |-> row.u, v |-> row.v,
                     train_ids |-> << rows[prev_j].train_id, row.train_id >>,
                     time_window |-> << entry_i, prev_exit >>,
                     severity |-> _severity(minutes_to), lead_min |-> minutes_to,
                     required_hold_min |-> Max2(0, required - entry_i)] >>
            ELSE << >>
    IN  IF isna(row.entry_time) \/ isna(row.exit_time)
          THEN block_sweep(rows, i + 1, active, e, w)
          ELSE capacity_risk \o headway_risk
               \o block_sweep(rows, i + 1, Append(act, i), e, w)

\* The block risks of analyze: block by block in the order of the block ids.
RECURSIVE block_risks(_, _, _, _)
block_risks(bo, edges_df, w, b) ==
  IF b > Len(BlockOrder) THEN << >>
  ELSE
    LET bid == BlockOrder[b]
        ix == { i \in 1..Len(bo) : bo[i].block_id = bid }
        order == sort_values(ix, [i \in ix |-> pre_entry(bo[i])])
        rows == [k \in 1..Len(order) |-> bo[order[k]]]
    IN  (IF ix = {} THEN << >>
         ELSE block_sweep(rows, 1, << >>,
                [block_id |-> bid, headway |-> edges_df[bid].headway,
                 capacity |-> edges_df[bid].capacity], w))
        \o block_risks(bo, edges_df, w, b + 1)

\* A sweep that cuts the hold of a platform risk at the end of the horizon.
RECURSIVE platform_sweep_hold_in_window(_, _, _, _, _, _)
platform_sweep_hold_in_window(rows, i, active, cap, sid, w) ==
  IF i > Len(rows) THEN << >>
  ELSE
    LET a == rows[i].arr_platform
        d == rows[i].dep_platform
        act == SelectSeq(active, LAMBDA ex : ex > a)
        minutes_to == Max2(0, a - w.t0)
    IN  (IF Len(act) >= cap
           THEN << [type |-> "platform_overflow", station_id |-> sid,
                    train_ids |-> << rows[i].train_id >>,
                    time_window |-> << a, d >>,
                    severity |-> _severity(minutes_to), lead_min |-> minutes_to,
                    required_hold_min |-> Min2(Min(2), w.t1 - a)] >>
           ELSE << >>)
        \o platform_sweep_hold_in_window(rows, i + 1, Append(act, d), cap, sid, w)

\* The sweep of analyze over the platform windows of one station (sorted by
\* arrival), from row i on, with the departures still on a platform.
RECURSIVE platform_sweep(_, _, _, _, _, _)
platform_sweep(rows, i, active, cap, sid, w) ==
  IF i > Len(rows) THEN << >>
  ELSE
    LET a == rows[i].arr_platform
        d == rows[i].dep_platform
        act == SelectSeq(active, LAMBDA ex : ex > a)
        minutes_to == Max2(0, a - w.t0)
    IN  (IF Len(act) >= cap
           THEN << [type |-> "platform_overflow", station_id |-> sid,
                    train_ids |-> << rows[i].train_id >>,
                    time_window |-> << a, d >>,
                    severity |-> _severity(minutes_to), lead_min |-> minutes_to,
                    required_hold_min |-> Min(2)] >>
           ELSE << >>)
        \o platform_sweep(rows, i + 1, Append(act, d), cap, sid, w)

\* The platform risks derived from platform windows po (those that start in
\* the horizon), station by station in the order of the station ids.
RECURSIVE overflow_risks(_, _, _, _)
overflow_risks(po, nodes_df, w, n) ==
  IF n > Len(StationOrder) THEN << >>
  ELSE
    LET sid == StationOrder[n]
        ix == { i \in 1..Len(po) : /\ po[i].station_id = sid
                                   /\ po[i].arr_platform >= w.t0
                                   /\ po[i].arr_platform <= w.t1 }
        order == sort_values(ix, [i \in ix |-> po[i].arr_platform])
        rows == [k \in 1..Len(order) |-> po[order[k]]]
        cap == IF sid \in DOMAIN nodes_df THEN nodes_df[sid].platforms ELSE 1
    IN  (IF ix = {} THEN << >> ELSE platform_sweep(rows, 1, << >>, cap, sid, w))
        \o overflow_risks(po, nodes_df, w, n + 1)

\* The platform risks read off the waiting ledger: its platform_busy rows
\* that start in the horizon.
RECURSIVE ledger_risks(_, _)
ledger_risks(wd, w) ==
  IF wd = << >> THEN << >>
  ELSE
    LET row == Head(wd)
        minutes_to == Max2(0, row.start_time - w.t0)
    IN  (IF /\ row.reason = "platform_busy"
            /\ notna(row.start_time)
            /\ row.start_time >= w.t0
            /\ row.start_time <= w.t1
           THEN << [type |-> "platform_overflow", station_id |-> row.id,
                    train_ids |-> << row.train_id >>,
                    time_window |-> << row.start_time, row.end_time >>,
                    severity |-> _severity(minutes_to), lead_min |-> minutes_to,
                    required_hold_min |-> row.minutes] >>
           ELSE << >>)
        \o ledger_risks(Tail(wd), w)

\* The platform windows analyze approximates from the block arrivals when it
\* is given neither a ledger nor platform windows.
arrivals_of(bo, nodes_df) ==
  [i \in 1..Len(bo) |->
     [train_id |-> bo[i].train_id, station_id |-> bo[i].v,
      arr_platform |-> bo[i].exit_time,
      dep_platform |-> bo[i].exit_time +
         (IF bo[i].v \in DOMAIN nodes_df THEN nodes_df[bo[i].v].min_dwell_min ELSE Min(2))]]

\* The horizon of an analysis: t0 defaults to the earliest entry_time.
window_of(bo, t0, horizon_min) ==
  LET ts == { bo[i].entry_time : i \in 1..Len(bo) } \ { NaT }
      start == IF notna(t0) THEN t0
               ELSE IF ts = {} THEN NaT
               ELSE CHOOSE t \in ts : \A x \in ts : t <= x
  IN  [t0 |-> start, t1 |-> start + horizon_min]

\* analyze: the radar.  inputs tells which optional frames the caller hands
\* over; an empty frame counts as none.
analyze(edges_df, nodes_df, bo, po, wd, inputs, t0, horizon_min) ==
  LET w == window_of(bo, t0, horizon_min)
  IN  IF bo = << >> THEN << >>
      ELSE block_risks(bo, edges_df, w, 1)
           \o (IF inputs = "both" /\ wd # << >> THEN ledger_risks(wd, w)
               ELSE IF inputs \in {"both", "platform"} /\ po # << >>
                 THEN overflow_risks(po, nodes_df, w, 1)
               ELSE overflow_risks(arrivals_of(bo, nodes_df), nodes_df, w, 1))

\* The capacity check of validate over the rows of one block (sorted by
\* entry_time): the number of rows that enter a full block.
RECURSIVE post_overlap_of(_, _, _, _)
post_overlap_of(rows, i, active, cap) ==
  IF i > Len(rows) THEN 0
  ELSE LET act == SelectSeq(active, LAMBDA ex : ex > rows[i].entry_time)
       IN  (IF Len(act) >= cap THEN 1 ELSE 0)
           + post_overlap_of(rows, i + 1, Append(act, rows[i].exit_time), cap)

\* The headway check of validate over the same rows: the number of rows that
\* enter before the exit of the row before them plus the headway.
headway_viol_of(rows, headway_min) ==
  Cardinality({ i \in 2..Len(rows) : rows[i].entry_time < rows[i - 1].exit_time + headway_min })

RECURSIVE validate_blocks(_, _, _)
validate_blocks(bo, edges_df, b) ==
  IF b > Len(BlockOrder) THEN << 0, 0 >>
  ELSE
    LET bid == BlockOrder[b]
        ix == { i \in 1..Len(bo) : bo[i].block_id = bid }
        order == sort_values(ix, [i \in ix |-> bo[i].entry_time])
        rows == [k \in 1..Len(order) |-> bo[order[k]]]
        rest == validate_blocks(bo, edges_df, b + 1)
    IN  IF ix = {} THEN rest
        ELSE << post_overlap_of(rows, 1, << >>, edges_df[bid].capacity) + rest[1],
                headway_viol_of(rows, edges_df[bid].headway) + rest[2] >>

\* validate: what it returns for a block occupancy that has rows.
validate(bo, edges_df, risks) ==
  LET n == validate_blocks(bo, edges_df, 1)
      critical_leads == { risks[i].lead_min : i \in { j \in 1..Len(risks) : risks[j].severity = "Critical" } }
  IN  [ post_overlap_violations |-> n[1],
        headway_violations |-> n[2],
        critical_min_lead_min |->
          IF critical_leads = {} THEN None
          ELSE CHOOSE m \in critical_leads : \A x \in critical_leads : m <= x,
        ok_post_no_overlap |-> n[1] = 0,
        ok_headway_enforced |-> n[2] = 0 ]

\* ------------------------------------------------------ apply_and_validate
\* apply_holds_to_events: each HOLD or OVERTAKE of positive minutes moves the
\* departure of the train's rows at the station to (act_dep, else sched_dep)
\* plus the hold.
RECURSIVE apply_holds_to_events(_, _)
apply_holds_to_events(df_events, plan) ==
  IF plan = << >> THEN df_events
  ELSE LET a == Head(plan)
           held(r) == LET base == IF notna(r.act_dep) THEN r.act_dep ELSE r.sched_dep
                      IN  [r EXCEPT !.act_dep = IF isna(base) THEN NaT ELSE base + a.minutes]
           df == IF a.type \in {"HOLD", "OVERTAKE"} /\ a.at_station # None /\ a.minutes > 0
                     /\ a.train_id \in DOMAIN df_events
                   THEN [df_events EXCEPT ![a.train_id] =
                           { IF r.station_id = a.at_station THEN held(r) ELSE r
                             : r \in df_events[a.train_id] }]
                   ELSE df_events
       IN  apply_holds_to_events(df, Tail(plan))

\* speed_map and plat_override of apply_and_validate (the last action of a
\* key wins).
speed_map(plan) ==
  LET ix == { i \in 1..Len(plan) : plan[i].type = "SPEED_TUNE" /\ plan[i].block_id # None }
  IN  [k \in { <<plan[i].train_id, plan[i].block_id>> : i \in ix } |->
         plan[CHOOSE i \in ix : /\ <<plan[i].train_id, plan[i].block_id>> = k
                                /\ \A j \in ix : <<plan[j].train_id, plan[j].block_id>> = k => j <= i
             ].speed_factor]

plat_override(plan) ==
  LET ix == { i \in 1..Len(plan) :
                /\ plan[i].type = "PLATFORM_REASSIGN"
                /\ plan[i].station_id # None
                /\ plan[i].platform # NoneSlot }
  IN  [k \in { <<plan[i].train_id, plan[i].station_id>> : i \in ix } |->
         plan[CHOOSE i \in ix : /\ <<plan[i].train_id, plan[i].station_id>> = k
                                /\ \A j \in ix : <<plan[j].train_id, plan[j].station_id>> = k => j <= i
             ].platform]

\* ------------------------------------------------------------ the optimiser
\* The order of train ids (the order of their strings).
TrainIdOrder == <<"T1", "T2", "T3">>
id_rank(t) == CHOOSE i \in 1..Len(TrainIdOrder) : TrainIdOrder[i] = t

\* r.get(f, default) of a dict.
get(r, f, default) == IF f \in DOMAIN r THEN r[f] ELSE default

\* round(x, 1) of a number of minutes held in ticks: the nearest tenth of a
\* minute, a tie going to the even tenth.
round1(t) ==
  LET tenth == TicksPerMin \div 10
      q == t \div tenth
      r == t % tenth
  IN  IF r * 2 < tenth THEN q * tenth
      ELSE IF r * 2 > tenth THEN (q + 1) * tenth
      ELSE (IF q % 2 = 0 THEN q ELSE q + 1) * tenth

_priority(train_id, prio_map) == get(prio_map, train_id, 0)

_headway_ok(entry, prev_exit, headway_min) == entry >= prev_exit + headway_min

sev_rank(r) ==
  LET sev == get(r, "severity", None)
  IN  IF sev = "Critical" THEN 0 ELSE IF sev = "High" THEN 1
      ELSE IF sev = "Medium" THEN 2 ELSE IF sev = "Low" THEN 3 ELSE 9

\* _risk_key of propose: (severity rank, lead, -worst priority), and whether
\* the key of a sorts before the key of b.
worst_prio(r, prio_map) ==
  LET ps == { _priority(r.train_ids[i], prio_map) : i \in 1..Len(r.train_ids) }
  IN  IF ps = {} THEN 0 ELSE CHOOSE m \in ps : \A x \in ps : x <= m

key_less(a, b, prio_map) ==
  \/ sev_rank(a) < sev_rank(b)
  \/ /\ sev_rank(a) = sev_rank(b)
     /\ \/ a.lead_min < b.lead_min
        \/ a.lead_min = b.lead_min /\ worst_prio(a, prio_map) > worst_prio(b, prio_map)

\* risks_h: the risks whose time lies in [t0, t1], sorted by _risk_key (a
\* stable sort).
RECURSIVE sort_risks(_, _, _)
sort_risks(rs, ix, prio_map) ==
  IF ix = {} THEN << >>
  ELSE LET i == CHOOSE a \in ix : \A b \in ix \ {a} :
                  \/ key_less(rs[a], rs[b], prio_map)
                  \/ ~key_less(rs[b], rs[a], prio_map) /\ a < b
       IN  << rs[i] >> \o sort_risks(rs, ix \ {i}, prio_map)

risks_in_horizon(rs, t0, t1, prio_map) ==
  sort_risks(rs, { i \in 1..Len(rs) : t0 <= rs[i].time_window[1] /\ rs[i].time_window[1] <= t1 },
             prio_map)

\* sorted(trains, key=(priority, holds so far, id))[-1].
last_by_priority(trains, prio_map, holds_count) ==
  LET key_le(a, b) ==
        \/ _priority(a, prio_map) < _priority(b, prio_map)
        \/ /\ _priority(a, prio_map) = _priority(b, prio_map)
           /\ \/ holds_count[a] < holds_count[b]
              \/ holds_count[a] = holds_count[b] /\ id_rank(a) <= id_rank(b)
      ts == { trains[i] : i \in 1..Len(trains) }
  IN  CHOOSE t \in ts : \A x \in ts : key_le(x, t)

\* The follower a precedence pin names for the block of the risk: the first
\* pin of that block whose leader and follower are both in the risk.
pinned_follower(r, trains, pins) ==
  LET ts == { trains[i] : i \in 1..Len(trains) }
      ix == { i \in 1..Len(pins) : /\ "block_id" \in DOMAIN r
                                   /\ pins[i].block_id = r.block_id
                                   /\ pins[i].leader \in ts
                                   /\ pins[i].follower \in ts }
  IN  IF ix = {} THEN None
      ELSE pins[CHOOSE i \in ix : \A j \in ix : i <= j].follower

\* The train propose holds for a headway or block_capacity risk.
follower_of(r, trains, cfg, holds_count) ==
  IF Len(trains) = 1 THEN trains[1]
  ELSE
    LET pinned == pinned_follower(r, trains, cfg.precedence_pins)
        first == IF pinned # None THEN pinned
                 ELSE last_by_priority(trains, cfg.priorities, holds_count)
        other == LET ix == { i \in 1..Len(trains) : trains[i] # first }
                 IN  IF ix = {} THEN first ELSE trains[CHOOSE i \in ix : \A j \in ix : i <= j]
    IN  IF /\ holds_count[first] >= cfg.max_holds_per_train
           /\ Len(trains) = 2
           /\ holds_count[other] < cfg.max_holds_per_train
          THEN other ELSE first

\* The minutes of the hold: the need (2 for block_capacity) within
\* [2, max_hold_min], plus the slack of a block with a high incident risk
\* (risk_heat in percent; the thresholds of the default epsilon 0.2).
hold_min_of(r, cfg) ==
  LET need == IF r.type = "headway" THEN get(r, "required_hold_min", 0) ELSE Min(2)
      base == Min2(Min(cfg.max_hold_min), Max2(Min(2), need))
      prob == get(cfg.risk_heat, get(r, "block_id", None), 0)
  IN  IF cfg.risk_heat # << >> /\ "block_id" \in DOMAIN r
        THEN IF prob >= 80 THEN Min2(Min(cfg.max_hold_min), base + Min(2))
             ELSE IF prob >= 60 THEN Min2(Min(cfg.max_hold_min), base + Min(1))
             ELSE base
        ELSE base

\* The minutes after the check against the occupancy of the block: when the
\* follower's window at or after the risk would still enter before the
\* latest earlier exit plus the headway, the hold becomes the gap, within
\* [2, max_hold_min].
verified_minutes(r, follower, hold_min, bo, edges_df, cfg) ==
  LET bid == r.block_id
      ts == r.time_window[1]
      g == { i \in 1..Len(bo) : bo[i].block_id = bid }
      cand == { i \in g : bo[i].train_id = follower /\ bo[i].entry_time >= ts }
      i == CHOOSE c \in cand : \A d \in cand :
             bo[c].entry_time < bo[d].entry_time \/ (bo[c].entry_time = bo[d].entry_time /\ c <= d)
      prevs == { j \in g : bo[j].entry_time < bo[i].entry_time }
      exits == { bo[j].exit_time : j \in prevs }
      prev_exit == CHOOSE x \in exits : \A y \in exits : y <= x
      headway_min == IF bid \in DOMAIN edges_df THEN edges_df[bid].headway ELSE 0
  IN  IF cand # {} /\ prevs # {}
         /\ ~_headway_ok(bo[i].entry_time + hold_min, prev_exit, headway_min)
        THEN round1(Min2(Min(cfg.max_hold_min),
                         Max2(Min(2), prev_exit + headway_min - bo[i].entry_time)))
        ELSE round1(hold_min)

\* The slots propose assigns beforehand: the arrivals (train, v, exit_time)
\* within the horizon, by arrival time, each on the earliest-free slot of its
\* station; the last assignment of a (train, station) stays.
RECURSIVE assign_slots(_, _, _, _, _)
assign_slots(bo, order, k, slot_avail, nodes_df) ==
  IF k > Len(order) THEN << >>
  ELSE
    LET row == bo[order[k]]
        sid == row.v
        slots == slot_avail[sid]
        idx == CHOOSE i \in DOMAIN slots :
                 \A j \in DOMAIN slots : slots[i] < slots[j] \/ (slots[i] = slots[j] /\ i <= j)
        dep == Max2(row.exit_time, slots[idx]) + nodes_df[sid].min_dwell_min
        rest == assign_slots(bo, order, k + 1,
                             [slot_avail EXCEPT ![sid] = [slots EXCEPT ![idx] = dep]], nodes_df)
        key == << row.train_id, sid >>
    IN  IF sid \notin DOMAIN slot_avail
          THEN assign_slots(bo, order, k + 1, slot_avail, nodes_df)
          ELSE [x \in DOMAIN rest \cup {key} |-> IF x \in DOMAIN rest THEN rest[x] ELSE idx]

assigned_slot_of(bo, nodes_df, t0, t1) ==
  LET ix == { i \in 1..Len(bo) : bo[i].exit_time >= t0 /\ bo[i].exit_time <= t1 }
  IN  assign_slots(bo, sort_values(ix, [i \in ix |-> bo[i].exit_time]), 1,
                   [sid \in DOMAIN nodes_df |->
                      [k \in 0..(Max2(1, nodes_df[sid].platforms) - 1) |-> TsMin]],
                   nodes_df)

\* The station propose holds the train of a platform_overflow risk at: the u
\* of the train's hop into the station that arrives closest to the risk time,
\* else the station itself.
upstream_of(bo, tr, sid, ts) ==
  LET cand == { i \in 1..Len(bo) : bo[i].train_id = tr /\ bo[i].v = sid }
      gap(i) == IF bo[i].exit_time >= ts THEN bo[i].exit_time - ts ELSE ts - bo[i].exit_time
  IN  IF cand = {} THEN sid
      ELSE bo[CHOOSE c \in cand : \A d \in cand :
                gap(c) < gap(d)
                \/ (gap(c) = gap(d) /\ (bo[c].entry_time < bo[d].entry_time
                                        \/ (bo[c].entry_time = bo[d].entry_time /\ c <= d)))].u

\* The body of propose's loop for a headway or block_capacity risk r, from
\* the state st of the loop (rec_plan, alt_options, holds_count, targeted).
block_step(r, st, a) ==
  LET trains == r.train_ids
      follower == follower_of(r, trains, a.cfg, st.holds_count)
      hold_min == hold_min_of(r, a.cfg)
      minutes == verified_minutes(r, follower, hold_min, a.bo, a.edges, a.cfg)
      action == [train_id |-> follower, type |-> "HOLD", at_station |-> r.u,
                 minutes |-> minutes, reason |-> r.type, block_id |-> r.block_id,
                 binding_constraints |-> << r.type >>]
      others == SelectSeq(trains, LAMBDA t : t # follower)
      hold_alt == [risk_ref |-> r, options |->
                    << [type |-> "HOLD", train_id |-> follower, at_station |-> r.u,
                        minutes |-> Min(2)],
                       [type |-> "HOLD", train_id |-> follower, at_station |-> r.u,
                        minutes |-> Min2(Min(5), Min(a.cfg.max_hold_min))] >>]
      fp == _priority(follower, a.cfg.priorities)
      lp == _priority(others[1], a.cfg.priorities)
      overtake_alt ==
        IF Len(trains) >= 2 /\ others # << >>
           /\ ((a.cfg.solver_available /\ fp >= lp) \/ fp > lp)
          THEN << [risk_ref |-> r, options |->
                    << [type |-> "OVERTAKE", train_id |-> others[1],
                        at_station |-> r.u, minutes |-> minutes] >>] >>
          ELSE << >>
      speed_alt == [risk_ref |-> r, options |->
                     << [type |-> "SPEED_TUNE", train_id |-> follower,
                         block_id |-> r.block_id, speed_factor |-> 19] >>]
  IN  IF trains = << >> THEN st
      ELSE [ rec_plan |-> Append(st.rec_plan, action),
             alt_options |-> (Append(st.alt_options, hold_alt) \o overtake_alt)
                             \o << speed_alt >>,
             holds_count |-> [st.holds_count EXCEPT ![follower] = @ + 1],
             targeted |-> st.targeted + 1 ]

\* The body of the loop for a platform_overflow risk r.  hash_slot stands
\* for abs(hash(...)) of the station and train, which differs from one
\* process to the next.
platform_step(r, st, a) ==
  LET trains == r.train_ids
      sid == r.station_id
      tr == trains[1]
      at_station == upstream_of(a.bo, tr, sid, r.time_window[1])
      pick == IF Len(trains) > 1
                THEN last_by_priority(trains, a.cfg.priorities, st.holds_count)
                ELSE tr
      action == [train_id |-> tr, type |-> "HOLD", at_station |-> at_station,
                 minutes |-> Min2(Min(3), Min(a.cfg.max_hold_min)),
                 reason |-> IF at_station # sid THEN "platform_overflow_upstream"
                            ELSE "platform_overflow"]
      nplat == IF sid \in DOMAIN a.nodes THEN a.nodes[sid].platforms ELSE 1
      slot_idx == IF << tr, sid >> \in DOMAIN a.assigned_slot THEN a.assigned_slot[<< tr, sid >>]
                  ELSE IF nplat > 1 THEN a.hash_slot % nplat
                  ELSE NoneSlot
      reassign ==
        IF sid \notin a.cfg.locked_stations
          THEN << [train_id |-> tr, type |-> "PLATFORM_REASSIGN", station_id |-> sid,
                   platform |-> slot_idx, reason |-> "spread_load",
                   binding_constraints |-> << "platform_capacity" >>] >>
          ELSE << >>
      alt == [risk_ref |-> r, options |->
               << [type |-> "HOLD", train_id |-> tr, at_station |-> sid, minutes |-> Min(2)],
                  [type |-> "HOLD", train_id |-> tr, at_station |-> sid,
                   minutes |-> Min2(Min(5), Min(a.cfg.max_hold_min))] >>]
  IN  IF trains = << >> THEN st
      ELSE [ rec_plan |-> Append(st.rec_plan, action) \o reassign,
             alt_options |-> Append(st.alt_options, alt),
             holds_count |-> [st.holds_count EXCEPT ![pick] = @ + 1],
             targeted |-> st.targeted + 1 ]

RECURSIVE propose_loop(_, _, _)
propose_loop(risks_h, st, a) ==
  IF risks_h = << >> THEN st
  ELSE LET r == Head(risks_h)
       IN  propose_loop(Tail(risks_h),
             IF r.type \in {"headway", "block_capacity"} THEN block_step(r, st, a)
             ELSE IF r.type = "platform_overflow" THEN platform_step(r, st, a)
             ELSE st,
             a)

\* propose with its defaults t0 = None and use_ga = False: what it returns
\* for the block occupancy bo and the risks.  Without a risk the default of
\* t0 localizes a timestamp that has a time zone already, which raises.
\* Without a heuristic action the GA is asked, and it returns no action for
\* the risks the loop skipped (none of them has a train).
propose(edges_df, nodes_df, bo, risks, cfg, hash_slot) ==
  LET entries == { bo[i].entry_time : i \in 1..Len(bo) }
      entry_min == CHOOSE t \in entries : \A x \in entries : t <= x
      t0 == Min2(entry_min, risks[1].time_window[1])
      t1 == t0 + cfg.horizon_min
      risks_h == risks_in_horizon(risks, t0, t1, cfg.priorities)
      st == propose_loop(risks_h,
              [rec_plan |-> << >>, alt_options |-> << >>,
               holds_count |-> [t \in { TrainIdOrder[i] : i \in 1..Len(TrainIdOrder) } |-> 0],
               targeted |-> 0],
              [bo |-> bo, edges |-> edges_df, nodes |-> nodes_df, cfg |-> cfg,
               hash_slot |-> hash_slot,
               assigned_slot |-> assigned_slot_of(bo, nodes_df, t0, t1)])
  IN  IF bo = << >>
        THEN [rec_plan |-> << >>, alt_options |-> << >>,
              plan_metrics |-> [actions |-> 0, conflicts_targeted |-> 0],
              audit_log |-> [strategy |-> "heuristic"]]
        ELSE IF risks = << >> THEN [raised |-> "TypeError"]
        ELSE [rec_plan |-> st.rec_plan, alt_options |-> st.alt_options,
              plan_metrics |-> [actions |-> Len(st.rec_plan),
                                conflicts_targeted |-> st.targeted,
                                expected_conflict_reduction |-> st.targeted],
              audit_log |-> [strategy |-> "heuristic",
                             max_hold_min |-> cfg.max_hold_min,
                             max_holds_per_train |-> cfg.max_holds_per_train,
                             horizon_min |-> cfg.horizon_min, t0 |-> t0]]

\* ------------------------------------------------- the genetic search
\* _risk_key of the search: (severity rank, lead); sorted keeps ties in
\* their order.
RECURSIVE ga_sorted(_, _)
ga_sorted(rs, ix) ==
  IF ix = {} THEN << >>
  ELSE LET less(a, b) == \/ sev_rank(rs[a]) < sev_rank(rs[b])
                         \/ /\ sev_rank(rs[a]) = sev_rank(rs[b])
                            /\ rs[a].lead_min < rs[b].lead_min
           i == CHOOSE a \in ix : \A b \in ix \ {a} : less(a, b) \/ (~less(b, a) /\ a < b)
       IN  << rs[i] >> \o ga_sorted(rs, ix \ {i})

\* The chromosomes a search over n risks can end with: the population is
\* drawn at random, one gene in 0..3 for each risk.
Chromosomes(n) == [1..n -> 0..3]

\* The hold of a gene: (0.0, 2.0, 3.0, float(max_hold_min))[gene].
gene_hold(gene, max_hold_min) ==
  IF gene = 0 THEN 0 ELSE IF gene = 1 THEN Min(2) ELSE IF gene = 2 THEN Min(3)
  ELSE Min(max_hold_min)

\* The actions propose_ga makes of the chromosome best for the sorted risks.
RECURSIVE ga_actions(_, _, _, _)
ga_actions(R, best, i, max_hold_min) ==
  IF i > Len(R) THEN << >>
  ELSE
    LET risk == R[i]
        hold == gene_hold(best[i], max_hold_min)
        trains == risk.train_ids
        action == [train_id |-> IF trains # << >> THEN trains[Len(trains)] ELSE None,
                   type |-> "HOLD",
                   at_station |-> IF risk.type \in { "headway", "block_capacity" }
                                    THEN risk.u ELSE get(risk, "station_id", None),
                   minutes |-> round1(hold), reason |-> risk.type,
                   block_id |-> get(risk, "block_id", None)]
    IN  (IF hold <= 0 THEN << >> ELSE << action >>)
        \o ga_actions(R, best, i + 1, max_hold_min)

\* propose_ga when its search ends with the chromosome best.
propose_ga(bo, risks, max_hold_min, best) ==
  IF risks = << >> \/ bo = << >> THEN << >>
  ELSE ga_actions(ga_sorted(risks, DOMAIN risks), best, 1, max_hold_min)

\* risks_h of propose: the risks within the horizon, sorted.
risks_h_of(bo, risks, cfg) ==
  LET entries == { bo[i].entry_time : i \in 1..Len(bo) }
      entry_min == CHOOSE t \in entries : \A x \in entries : t <= x
      t0 == Min2(entry_min, risks[1].time_window[1])
  IN  risks_in_horizon(risks, t0, t0 + cfg.horizon_min, cfg.priorities)

\* Whether propose runs the search after the heuristic h: with use_ga, and
\* also when the heuristic made no action, on a block occupancy with rows.
ga_runs(h, bo, use_ga) ==
  IF bo = << >> \/ "raised" \in DOMAIN h THEN FALSE
  ELSE use_ga \/ h.rec_plan = << >>

\* The result of propose after the search made ga_plan: the actions of the
\* search are the plan with use_ga, and else when it made any.
with_ga(h, ga_plan, use_ga) ==
  IF use_ga \/ (h.rec_plan = << >> /\ ga_plan # << >>)
    THEN [h EXCEPT !.rec_plan = ga_plan,
                   !.plan_metrics = [@ EXCEPT !.actions = Len(ga_plan)],
                   !.audit_log = [@ EXCEPT !.strategy = "ga"]]
    ELSE h

\* ---------------------------------------------------------------- actions
\* The state a finished or not yet started replay leaves the working
\* variables in.
NoTrain == "-"

Init ==
  /\ edges \in EdgeTables
  /\ nodes \in NodeTables
  /\ events \in EventTables
  /\ per_train_speed = << >>
  /\ platform_override = << >>
  /\ rec_plan = << >>
  /\ caller = "-"
  /\ graph = << >>
  /\ pc = "init"
  /\ phase = "-"
  /\ todo = << >>
  /\ train = NoTrain
  /\ hops = << >>
  /\ current_time = NaT
  /\ block_heap = << >>
  /\ plat_avail = << >>
  /\ block_records = << >>
  /\ platform_records = << >>
  /\ waits = << >>
  /\ radar = << >>
  /\ horizon = [t0 |-> NaT, t1 |-> NaT, inputs |-> "-"]
  /\ validation = << >>
  /\ OptIdle
  /\ EngineIdle
  /\ NormIdle
  /\ ExtIdle

\* run, up to its loop over the trains: the itineraries and the allocators
\* are built from the graph; unpacking a station_attr entry that has not
\* three fields raises.
RunPrelude(g) ==
  /\ graph' = g
  /\ train' = NoTrain
  /\ hops' = << >>
  /\ current_time' = NaT
  /\ block_records' = << >>
  /\ platform_records' = << >>
  /\ waits' = << >>
  /\ IF \E s \in DOMAIN g.station_attr : Len(g.station_attr[s]) # 3
       THEN /\ pc' = "raised"
            /\ todo' = << >>
            /\ block_heap' = << >>
            /\ plat_avail' = << >>
       ELSE /\ pc' = "trains"
            /\ todo' = replay_order(events', { t \in Trains : events'[t] # {} })
            /\ block_heap' = [b \in DOMAIN g.block_attr |->
                 [k \in 1..Max2(1, g.block_attr[b][3]) |-> TsMin]]
            /\ plat_avail' = [s \in DOMAIN g.station_attr |->
                 [k \in 0..(Max2(1, g.station_attr[s][1]) - 1) |-> TsMin]]

\* national_replay.run called on a graph whose station_attr carries the
\* route setup time, with or without its options.
CallRun ==
  /\ UNCHANGED otherVars
  /\ pc = "init"
  /\ caller' = "run"
  /\ per_train_speed' \in SpeedMaps
  /\ platform_override' \in PlatformOverrides
  /\ UNCHANGED << edges, nodes, events, rec_plan, phase, radar, horizon, validation >>
  /\ RunPrelude(SectionGraph(nodes, edges))

\* apply_and_validate: graph = load_graph(nodes_df, edges_df), then the
\* baseline replay_run(events_df, graph).
CallApplyAndValidate ==
  /\ UNCHANGED otherVars
  /\ pc = "init"
  /\ caller' = "apply_and_validate"
  /\ phase' = "before"
  /\ rec_plan' \in Plans
  /\ UNCHANGED << edges, nodes, events, per_train_speed, platform_override,
                  radar, horizon, validation >>
  /\ RunPrelude(load_graph(nodes, edges))

\* apply_and_validate after its baseline replay: the holds are applied to the
\* events, the speed and platform maps are read off the plan, and the replay
\* is run again.
ApplyPlan ==
  /\ UNCHANGED otherVars
  /\ pc = "done"
  /\ caller = "apply_and_validate"
  /\ phase = "before"
  /\ phase' = "after"
  /\ events' = apply_holds_to_events(events, rec_plan)
  /\ per_train_speed' = speed_map(rec_plan)
  /\ platform_override' = plat_override(rec_plan)
  /\ RunPrelude(graph)
  /\ UNCHANGED << edges, nodes, rec_plan, caller, radar, horizon, validation >>

\* Lines 148-176 of run for train tid with sorted rows grp and hops hs: the
\* origin's arrival and departure request and its platform allocation.
origin_of(tid, grp, hs) ==
  LET u0 == hs[1][1]
      dwell_u == station_attr_get(graph, u0)[2]
      arr_a == first_notna(<< station_map(grp, u0, "act_arr"), station_map(grp, u0, "sched_arr") >>)
      dep_a == first_notna(<< station_map(grp, u0, "act_dep"), station_map(grp, u0, "sched_dep") >>)
      arr0 == IF isna(arr_a) /\ notna(dep_a) THEN dep_a - dwell_u ELSE arr_a
      dep_sched0 == IF isna(dep_a) /\ notna(arr0) THEN arr0 + dwell_u ELSE dep_a
      t_origin_req == IF notna(arr0) THEN arr0 ELSE dep_sched0
      a == alloc_platform(plat_avail[u0], t_origin_req, dwell_u, override_of(tid, u0))
  IN  [ u0 |-> u0, arr0 |-> arr0, a |-> a,
        t_req_dep |-> IF notna(dep_sched0) THEN Max2(dep_sched0, a.dep) ELSE a.dep ]

\* What every step of the replay leaves alone.
replayFixed ==
  << edges, nodes, events, per_train_speed, platform_override, rec_plan,
     caller, graph, phase, radar, horizon, validation >>

\* The origin of the next train: its platform dwell and requested departure.
\* A train without hops is skipped; an origin that has no platform list
\* raises (plat_avail[station_id]).
StartTrain ==
  /\ UNCHANGED otherVars
  /\ pc = "trains"
  /\ todo # << >>
  /\ \E tid \in { Head(todo) } :
     \E grp \in { sort_group(events[tid]) } :
     \E hs \in { hops_of([i \in 1..Len(grp) |-> grp[i].station_id], graph, 1) } :
       IF hs = << >>
         THEN /\ todo' = Tail(todo)
              /\ UNCHANGED << pc, train, hops, current_time, plat_avail,
                              platform_records, waits >>
         ELSE IF hs[1][1] \notin DOMAIN plat_avail
         THEN /\ pc' = "raised"
              /\ train' = tid
              /\ UNCHANGED << todo, hops, current_time, plat_avail,
                              platform_records, waits >>
         ELSE \E o \in { origin_of(tid, grp, hs) } :
              /\ todo' = Tail(todo)
              /\ train' = tid
              /\ hops' = hs
              /\ pc' = "hops"
              /\ plat_avail' = [plat_avail EXCEPT ![o.u0] = o.a.slots]
              /\ waits' = IF o.a.wait > 0
                   THEN Append(waits,
                          [train_id |-> tid, resource |-> "platform", id |-> o.u0,
                           start_time |-> o.arr0, end_time |-> o.a.start,
                           minutes |-> o.a.wait, reason |-> "platform_busy"])
                   ELSE waits
              /\ platform_records' = Append(platform_records,
                   [train_id |-> tid, station_id |-> o.u0, arr_platform |-> o.a.start,
                    dep_platform |-> o.t_req_dep, platform_slot |-> o.a.slot])
              /\ current_time' = o.t_req_dep
  /\ UNCHANGED << replayFixed, block_heap, block_records >>

\* Lines 178-244 of run for the hop (u, v) of train tid: the block allocation,
\* the recorded window, the arrival (never before an observed one) and the
\* platform allocation at v.
hop_of(tid, grp, u, v) ==
  LET bid == graph.pair_to_block[<<u, v>>]
      arr_v_act == station_map(grp, v, "act_arr")
      run_min == run_min_of(grp, tid, u, v, bid)
      al == alloc_heap(block_heap[bid], current_time)
      exit_rec == al.start + run_min
      exit_time == IF notna(arr_v_act) /\ exit_rec < arr_v_act THEN arr_v_act ELSE exit_rec
      dep_sched_v == first_notna(<< station_map(grp, v, "act_dep"), station_map(grp, v, "sched_dep") >>)
      attr_v == station_attr_get(graph, v)
      start_req == exit_time + attr_v[3]
      ap == alloc_platform(plat_avail[v], start_req, attr_v[2], override_of(tid, v))
  IN  [ bid |-> bid, al |-> al, exit_rec |-> exit_rec, exit_time |-> exit_time, ap |-> ap,
        next_dep_req |-> IF notna(dep_sched_v) /\ ap.dep < dep_sched_v THEN dep_sched_v ELSE ap.dep ]

\* One hop (u, v) of the train: the block, then the platform at v.  The
\* record of a block window carries the track slot it was allocated to, which
\* the program does not write down.
Hop ==
  /\ UNCHANGED otherVars
  /\ pc = "hops"
  /\ hops # << >>
  /\ \E tid \in { train } :
     \E u \in { Head(hops)[1] } :
     \E v \in { Head(hops)[2] } :
       IF v \notin DOMAIN plat_avail
         THEN /\ pc' = "raised"
              /\ UNCHANGED << hops, current_time, block_heap, plat_avail,
                              block_records, platform_records, waits >>
         ELSE
     \E h \in { hop_of(tid, sort_group(events[tid]), u, v) } :
     \E waits1 \in { IF h.al.wait > 0
                       THEN Append(waits,
                              [train_id |-> tid, resource |-> "block", id |-> h.bid,
                               start_time |-> current_time, end_time |-> h.al.start,
                               minutes |-> h.al.wait, reason |-> "block_or_headway"])
                       ELSE waits } :
         /\ block_heap' = [block_heap EXCEPT
              ![h.bid][h.al.k] = h.exit_rec + graph.block_attr[h.bid][2]]
         /\ block_records' = Append(block_records,
              [train_id |-> tid, u |-> u, v |-> v, block_id |-> h.bid,
               entry_time |-> h.al.start, exit_time |-> h.exit_rec,
               headway_applied_min |-> h.al.wait, track |-> h.al.k])
         /\ plat_avail' = [plat_avail EXCEPT ![v] = h.ap.slots]
         /\ waits' = IF h.ap.wait > 0
              THEN Append(waits1,
                     [train_id |-> tid, resource |-> "platform", id |-> v,
                      start_time |-> h.exit_time, end_time |-> h.ap.start,
                      minutes |-> h.ap.wait, reason |-> "platform_busy_or_route"])
              ELSE waits1
         /\ platform_records' = Append(platform_records,
              [train_id |-> tid, station_id |-> v, arr_platform |-> h.ap.start,
               dep_platform |-> h.next_dep_req, platform_slot |-> h.ap.slot])
         /\ current_time' = h.next_dep_req
         /\ hops' = Tail(hops)
         /\ pc' = IF Tail(hops) = << >> THEN "trains" ELSE "hops"
  /\ UNCHANGED << replayFixed, todo, train >>

\* run returns its SimResult.
Finish ==
  /\ UNCHANGED otherVars
  /\ pc = "trains"
  /\ todo = << >>
  /\ pc' = "done"
  /\ UNCHANGED << replayFixed, todo, train, hops, current_time, block_heap,
                  plat_avail, block_records, platform_records, waits >>

\* risk.analyze on the outputs of the finished replay.  apply_and_validate
\* hands over both optional frames; other callers hand over both, the
\* platform occupancy only, or none.
Analyze ==
  /\ UNCHANGED otherVars
  /\ pc = "done"
  /\ caller = "apply_and_validate" => phase = "after"
  /\ \E inputs \in AnalyzeInputs, horizon_min \in Horizons :
       /\ caller = "apply_and_validate" => inputs = "both"
       /\ radar' = analyze(edges, nodes, block_records, platform_records, waits,
                           inputs, NaT, horizon_min)
       /\ horizon' = IF block_records = << >>
                       THEN [t0 |-> NaT, t1 |-> NaT, inputs |-> inputs]
                       ELSE [t0 |-> window_of(block_records, NaT, horizon_min).t0,
                             t1 |-> window_of(block_records, NaT, horizon_min).t1,
                             inputs |-> inputs]
  /\ pc' = "analyzed"
  /\ UNCHANGED << edges, nodes, events, per_train_speed, platform_override,
                  rec_plan, caller, graph, phase, todo, train, hops,
                  current_time, block_heap, plat_avail, block_records,
                  platform_records, waits, validation >>

\* risk.validate on the block occupancy and the risks.  A block occupancy
\* without rows has no block_id column to merge on, and the merge raises.
Validate ==
  /\ UNCHANGED otherVars
  /\ pc = "analyzed"
  /\ IF block_records = << >>
       THEN /\ pc' = "raised"
            /\ UNCHANGED validation
       ELSE /\ pc' = "validated"
            /\ validation' = validate(block_records, edges, radar)
  /\ UNCHANGED << edges, nodes, events, per_train_speed, platform_override,
                  rec_plan, caller, graph, phase, todo, train, hops,
                  current_time, block_heap, plat_avail, block_records,
                  platform_records, waits, radar, horizon >>

Next ==
  \/ CallRun \/ CallApplyAndValidate \/ ApplyPlan
  \/ StartTrain \/ Hop \/ Finish
  \/ Analyze \/ Validate

Spec == Init /\ [][Next]_vars

\* ------------------------------------------------------------- properties
\* The hops of the occupancy, and whether both ends of one were observed.
Hops == 1..Len(block_records)
both_observed(r) ==
  LET grp == sort_group(events[r.train_id])
  IN  notna(station_map(grp, r.v, "act_arr")) /\ notna(station_map(grp, r.u, "act_dep"))

\* The factor the replay is asked to apply to a hop, in twentieths.
asked_factor(r) ==
  IF <<r.train_id, r.block_id>> \in DOMAIN per_train_speed
    THEN Max2(16, Min2(20, per_train_speed[<<r.train_id, r.block_id>>]))
    ELSE 20

C2_PlatformWindowsDisjoint ==
  \A i \in 1..Len(platform_records) : \A j \in 1..Len(platform_records) :
    (/\ i < j
     /\ platform_records[i].station_id = platform_records[j].station_id
     /\ platform_records[i].platform_slot = platform_records[j].platform_slot)
    => \/ platform_records[i].dep_platform <= platform_records[j].arr_platform
       \/ platform_records[j].dep_platform <= platform_records[i].arr_platform

\* C3: every hop without observed times at both ends takes at least the
\* block's min_run_time scaled by the speed factor asked for (clamped to
\* [0.8, 1.0], 1 when there is none).
C3_MinRunUnlessObserved ==
  \A i \in Hops :
    ~both_observed(block_records[i])
    => (block_records[i].exit_time - block_records[i].entry_time) * 20 >=
         edges[block_records[i].block_id].min_run_time * asked_factor(block_records[i])

\* A hop without observed times that ran faster than min_run_time because of
\* a speed factor below 1.
C3_Witness ==
  \E i \in Hops :
    /\ ~both_observed(block_records[i])
    /\ asked_factor(block_records[i]) < 20
    /\ (block_records[i].exit_time - block_records[i].entry_time) * 20 =
         edges[block_records[i].block_id].min_run_time * asked_factor(block_records[i])

\* C3 as stated: every hop, observed at both ends or not, takes at least
\* min_run_time scaled by the speed factor.
C3_MinRunAllHops ==
  \A i \in Hops :
    (block_records[i].exit_time - block_records[i].entry_time) * 20 >=
      edges[block_records[i].block_id].min_run_time * asked_factor(block_records[i])

\* C4: apply_and_validate returns, and a validation of the occupancy a replay
\* produced reports no capacity overlap and no headway violation.
C4_ValidationOk ==
  /\ caller = "apply_and_validate" => pc # "raised"
  /\ pc = "validated" => validation.ok_post_no_overlap /\ validation.ok_headway_enforced

\* The leader of hop j on its block: the window allocated just before it.
leader_of(j) ==
  LET before == { i \in Hops : i < j /\ block_records[i].block_id = block_records[j].block_id }
  IN  IF before = {} THEN 0 ELSE CHOOSE i \in before : \A k \in before : k <= i

\* C9: on a block of capacity 1, whenever a follower asked to enter, within
\* the horizon, before its leader's exit plus the headway, the radar holds a
\* headway risk naming leader and follower whose required_hold_min is the
\* leader's exit plus the headway minus the time of the request.
C9_HeadwayRiskEmitted ==
  pc \in {"analyzed", "validated"} =>
    \A j \in Hops :
      LET f == block_records[j]
          l == block_records[leader_of(j)]
          h == edges[f.block_id].headway
      IN  (/\ leader_of(j) # 0
           /\ edges[f.block_id].capacity = 1
           /\ pre_entry(f) < l.exit_time + h
           /\ horizon.t0 <= pre_entry(f)
           /\ pre_entry(f) <= horizon.t1)
          => \E n \in 1..Len(radar) :
               /\ radar[n].type = "headway"
               /\ radar[n].block_id = f.block_id
               /\ radar[n].train_ids = << l.train_id, f.train_id >>
               /\ radar[n].required_hold_min = l.exit_time + h - pre_entry(f)

\* C10: whenever the replay (without platform overrides) made a train wait
\* for a platform at a moment within the horizon, the radar run on the
\* replay's three outputs holds a platform_overflow risk for that train and
\* station whose required_hold_min is the wait.
C10_OverflowRiskEmitted ==
  (/\ pc \in {"analyzed", "validated"}
   /\ horizon.inputs = "both"
   /\ platform_override = << >>)
  => \A k \in 1..Len(waits) :
       (/\ waits[k].resource = "platform"
        /\ horizon.t0 <= waits[k].start_time
        /\ waits[k].start_time <= horizon.t1)
       => \E n \in 1..Len(radar) :
            /\ radar[n].type = "platform_overflow"
            /\ radar[n].station_id = waits[k].id
            /\ radar[n].train_ids = << waits[k].train_id >>
            /\ radar[n].required_hold_min = waits[k].minutes

\* ------------------------------------------------- the optimiser, called
\* The block occupancy rows of a train that enters B12 at dep and, when it
\* goes far, B23 after a dwell at S2.
OccRows(tid, dep, far) ==
  << [train_id |-> tid, u |-> "S1", v |-> "S2", block_id |-> "B12",
      entry_time |-> dep, exit_time |-> dep + Min(10), headway_applied_min |-> 0] >>
  \o (IF far
        THEN << [train_id |-> tid, u |-> "S2", v |-> "S3", block_id |-> "B23",
                 entry_time |-> dep + Min(12), exit_time |-> dep + Min(16),
                 headway_applied_min |-> 0] >>
        ELSE << >>)

\* Block occupancies as planned, before any enforcement: T1, then T2 a minute
\* or twenty behind it, with or without T3 two minutes behind T1; and the
\* occupancy without rows.
BlockOccupancies ==
  { (OccRows("T1", Min(0), far) \o OccRows("T2", d2, far)) \o r3 :
      far \in BOOLEAN, d2 \in { Min(1), Min(20) },
      r3 \in { << >>, OccRows("T3", Min(2), FALSE) } }
  \cup { << >> }

\* The keyword arguments of propose (horizon_min at its default), with what
\* the process brings along: whether a solver can be imported, and the hash
\* of a (station, train) string.
ProposeKwargs ==
  { [horizon_min |-> Min(60), priorities |-> p, max_hold_min |-> m,
     max_holds_per_train |-> k, risk_heat |-> rh, precedence_pins |-> pins,
     locked_stations |-> ls, solver_available |-> sa, hash_slot |-> hs] :
      p \in { << >>, [t \in {"T2"} |-> 5] },
      m \in { 3, 5 },
      k \in { 1, 2 },
      rh \in { << >>, [b \in {"B12"} |-> 70] },
      pins \in { << >>, << [block_id |-> "B12", leader |-> "T2", follower |-> "T1"] >> },
      ls \in { {}, {"S2"} },
      sa \in BOOLEAN,
      hs \in { 0, 1 } }

\* What a call of the optimiser leaves alone: the variables of the replay.
replayOnly ==
  << events, per_train_speed, platform_override, rec_plan, caller, graph, phase,
     todo, train, hops, current_time, block_heap, plat_avail, waits, horizon,
     validation >>

ReplayIdle ==
  /\ events = [t \in Trains |-> {}]
  /\ per_train_speed = << >>
  /\ platform_override = << >>
  /\ rec_plan = << >>
  /\ caller = "-"
  /\ graph = << >>
  /\ phase = "-"
  /\ todo = << >>
  /\ train = NoTrain
  /\ hops = << >>
  /\ current_time = NaT
  /\ block_heap = << >>
  /\ plat_avail = << >>
  /\ waits = << >>
  /\ horizon = [t0 |-> NaT, t1 |-> NaT, inputs |-> "-"]
  /\ validation = << >>

InitPropose ==
  /\ edges \in EdgeTables
  /\ nodes \in NodeTables
  /\ block_records \in BlockOccupancies
  /\ platform_records = << >>
  /\ radar = << >>
  /\ pc = "occupancy"
  /\ kwargs \in ProposeKwargs
  /\ proposal = << >>
  /\ ReplayIdle
  /\ EngineIdle
  /\ NormIdle
  /\ ExtIdle

\* analyze on the block occupancy alone, over the horizon of the proposal.
AnalyzeOccupancy ==
  /\ pc = "occupancy"
  /\ radar' = analyze(edges, nodes, block_records, << >>, << >>, "none", NaT,
                      kwargs.horizon_min)
  /\ pc' = "risks"
  /\ UNCHANGED << edges, nodes, block_records, platform_records, kwargs, proposal,
                  replayOnly, engineVars, normVars, extVars >>

\* propose on the occupancy and its risks.
Propose ==
  /\ pc = "risks"
  /\ proposal' = propose(edges, nodes, block_records, radar, kwargs, kwargs.hash_slot)
  /\ pc' = "proposed"
  /\ UNCHANGED << edges, nodes, block_records, platform_records, radar, kwargs,
                  replayOnly, engineVars, normVars, extVars >>

NextPropose == AnalyzeOccupancy \/ Propose

SpecPropose == InitPropose /\ [][NextPropose]_vars

\* The HOLD actions of a plan that target train t.
holds_on(plan, t) ==
  { i \in 1..Len(plan) : plan[i].type = "HOLD" /\ plan[i].train_id = t }

\* C5: in any plan propose returns, no train is the target of more than
\* max_holds_per_train HOLD actions.
C5_FairnessCap ==
  (pc = "proposed" /\ "rec_plan" \in DOMAIN proposal) =>
    \A t \in { TrainIdOrder[i] : i \in 1..Len(TrainIdOrder) } :
      Cardinality(holds_on(proposal.rec_plan, t)) <= kwargs.max_holds_per_train

\* ------------------------------------------------------ the runtime engine
\* The number of _recompute calls the engine is followed for.
MaxTicks == 3

\* EngineConfig (horizon_min and max_hold_min at their defaults), with what
\* the process brings along for propose.
EngineConfigs ==
  { [horizon_min |-> Min(60), max_hold_min |-> 3, max_holds_per_train |-> k,
     solver_available |-> sa, hash_slot |-> 1] :
      k \in { 1, 2 }, sa \in BOOLEAN }

\* The block occupancies the artifacts of the engine hold: none, T1 and T2 a
\* minute apart, T1 and T2 twenty minutes apart.
EngineOccupancies ==
  { << >> } \cup { OccRows("T1", Min(0), FALSE) \o OccRows("T2", d2, FALSE) :
                      d2 \in { Min(1), Min(20) } }

EngineState == [last_plan |-> << >>, last_risks |-> << >>, twin_snapshot |-> << >>]

\* The keyword arguments _recompute hands to propose; the others are at
\* their defaults.
kwargs_of(c) ==
  [horizon_min |-> c.horizon_min, priorities |-> << >>, max_hold_min |-> c.max_hold_min,
   max_holds_per_train |-> c.max_holds_per_train, risk_heat |-> << >>,
   precedence_pins |-> << >>, locked_stations |-> {},
   solver_available |-> c.solver_available, hash_slot |-> c.hash_slot]

\* The compact snapshot: the row of each train with its latest exit_time, in
\* the order of those times.
snapshot_of(bo) ==
  LET order == sort_values(1..Len(bo), [i \in 1..Len(bo) |-> bo[i].exit_time])
      last == { k \in 1..Len(order) :
                  \A j \in (k + 1)..Len(order) :
                    bo[order[j]].train_id # bo[order[k]].train_id }
      ks == sort_values(last, [k \in last |-> k])
  IN  [n \in 1..Len(ks) |->
         [train_id |-> bo[order[ks[n]]].train_id, block_id |-> bo[order[ks[n]]].block_id,
          u |-> bo[order[ks[n]]].u, v |-> bo[order[ks[n]]].v, progress_pct |-> 100]]

\* _recompute on artifacts that exist: the state it leaves, given the risks
\* analyze returned and what propose returned (out).  With a plan from the
\* tick before, the hysteresis names json, which the module does not import:
\* the NameError is caught and the plan is set to the empty list.
recompute(st, bo, risks, out) ==
  [ twin_snapshot |-> IF bo # << >> THEN snapshot_of(bo) ELSE st.twin_snapshot,
    last_risks |-> risks,
    last_plan |-> IF "raised" \in DOMAIN out THEN << >>
                  ELSE IF st.last_plan # << >> THEN << >>
                  ELSE out.rec_plan ]

\* What _recompute reads: the artifact files and the config.
inputs_now ==
  [artifacts |-> artifacts, edges |-> edges, nodes |-> nodes, bo |-> block_records,
   plat |-> platform_records, cfg |-> engine_cfg]

engineFixed == << pc, radar, optVars, replayOnly, normVars, extVars >>

InitEngine ==
  /\ edges \in EdgeTables
  /\ nodes \in NodeTables
  /\ block_records \in EngineOccupancies
  /\ platform_records = << >>
  /\ artifacts \in BOOLEAN
  /\ engine_cfg \in EngineConfigs
  /\ state = EngineState
  /\ thread_alive = FALSE
  /\ stop_set = FALSE
  /\ ticks = 0
  /\ seen = << >>
  /\ radar = << >>
  /\ pc = "engine"
  /\ OptIdle
  /\ ReplayIdle
  /\ NormIdle
  /\ ExtIdle

\* start: nothing while the thread is alive; else the stop flag is cleared
\* and the thread started.
Start ==
  /\ ~thread_alive
  /\ stop_set' = FALSE
  /\ thread_alive' = TRUE
  /\ UNCHANGED << edges, nodes, block_records, platform_records, artifacts,
                  engine_cfg, state, ticks, seen, engineFixed >>

\* stop: the stop flag is set.
Stop ==
  /\ ~stop_set
  /\ stop_set' = TRUE
  /\ UNCHANGED << edges, nodes, block_records, platform_records, artifacts,
                  engine_cfg, state, thread_alive, ticks, seen, engineFixed >>

\* _run sees the stop flag and returns.
ThreadExit ==
  /\ thread_alive
  /\ stop_set
  /\ thread_alive' = FALSE
  /\ UNCHANGED << edges, nodes, block_records, platform_records, artifacts,
                  engine_cfg, state, stop_set, ticks, seen, engineFixed >>

\* One pass of _run's loop: the adapters (which leave the engine alone) and
\* _recompute, which returns at once when an artifact is missing.
Tick ==
  /\ thread_alive
  /\ ~stop_set
  /\ ticks < MaxTicks
  /\ ticks' = ticks + 1
  /\ seen' = inputs_now
  /\ IF artifacts
       THEN \E risks \in { analyze(edges, nodes, block_records, platform_records, << >>,
                                   IF platform_records = << >> THEN "none" ELSE "platform",
                                   NaT, engine_cfg.horizon_min) } :
            \E out \in { propose(edges, nodes, block_records, risks,
                                  kwargs_of(engine_cfg), engine_cfg.hash_slot) } :
              state' = recompute(state, block_records, risks, out)
       ELSE state' = state
  /\ UNCHANGED << edges, nodes, block_records, platform_records, artifacts,
                  engine_cfg, thread_alive, stop_set, engineFixed >>

\* The pipeline writes the artifacts of the scope anew, or they are removed.
WriteArtifacts ==
  /\ ticks < MaxTicks
  /\ \/ /\ artifacts' = TRUE
        /\ block_records' \in EngineOccupancies
        /\ block_records' # block_records \/ ~artifacts
     \/ /\ artifacts
        /\ artifacts' = FALSE
        /\ UNCHANGED block_records
  /\ UNCHANGED << edges, nodes, platform_records, engine_cfg, state, thread_alive,
                  stop_set, ticks, seen, engineFixed >>

NextEngine == Start \/ Stop \/ ThreadExit \/ Tick \/ WriteArtifacts

SpecEngine == InitEngine /\ [][NextEngine]_vars

\* C6: a tick over the artifacts and config the tick before it read leaves
\* the plan in the engine state as it was.
C6_PlanStable ==
  [][ (ticks' = ticks + 1 /\ ticks >= 1 /\ seen = inputs_now)
        => state'.last_plan = state.last_plan ]_vars

\* ----------------------------------------------------------- normalisation
\* The minutes of a day.
DayMin == 1440

\* A raw time cell: missing, a time of day (hm minutes after midnight), or a
\* full datetime (day counted from the first service date).
NA == [kind |-> "na"]
TimeOfDay(hm) == [kind |-> "time", hm |-> hm]
DateTime(day, hm) == [kind |-> "datetime", day |-> day, hm |-> hm]

\* The cells the raw rows are drawn from: 23:50, 00:00, 00:05, 00:20, and
\* 10:00 three days after the first service date.
RawCells ==
  { NA, TimeOfDay(23 * 60 + 50), TimeOfDay(0), TimeOfDay(5), TimeOfDay(20),
    DateTime(3, 10 * 60) }

\* The raw rows of one train on one service date, in file order: three stops
\* with or without a stop_seq column; a stop has its scheduled arrival, or
\* only its scheduled departure.
RawFrames ==
  { [i \in 1..3 |->
       [train_id |-> "T1", stop_seq |-> IF seq THEN i ELSE NaT, service_date |-> svc,
        sched_arr |-> IF dep_only[i] THEN NA ELSE c[i],
        sched_dep |-> IF dep_only[i] THEN c[i] ELSE NA]] :
      c \in [1..3 -> RawCells], seq \in BOOLEAN, svc \in { 0, 1 },
      dep_only \in { [i \in 1..3 |-> FALSE], [i \in 1..3 |-> i = 1] } }

\* _is_zero_time: the placeholder "00:00".
_is_zero_time(c) == c.kind = "time" /\ c.hm = 0

\* Lines 280-303 of to_train_events: a zero scheduled arrival at the first
\* stop of a train, and a zero scheduled departure at its last, are missing
\* values (first and last by stop_seq).
zero_cleanup(rows) ==
  LET seqs == { rows[i].stop_seq : i \in 1..Len(rows) } \ { NaT }
      is_first(i) == seqs # {} /\ \A x \in seqs : rows[i].stop_seq <= x
      is_last(i) == seqs # {} /\ \A x \in seqs : rows[i].stop_seq >= x
  IN  [i \in 1..Len(rows) |->
         [rows[i] EXCEPT
            !.sched_arr = IF rows[i].stop_seq # NaT /\ is_first(i) /\ _is_zero_time(@)
                            THEN NA ELSE @,
            !.sched_dep = IF rows[i].stop_seq # NaT /\ is_last(i) /\ _is_zero_time(@)
                            THEN NA ELSE @]]

\* The timestamp (in ticks from the midnight of the first service date) of a
\* raw cell: a time of day is put on the row's service date.
parse_cell(c, svc) ==
  IF c.kind = "time" THEN Min(svc * DayMin + c.hm)
  ELSE IF c.kind = "datetime" THEN Min(c.day * DayMin + c.hm)
  ELSE NaT

_parse_times_with_service_date(rows) ==
  [i \in 1..Len(rows) |->
     [rows[i] EXCEPT !.sched_arr = parse_cell(@, rows[i].service_date),
                     !.sched_dep = parse_cell(@, rows[i].service_date)]]

\* The reference time of a parsed row: its first time that is not missing.
ref_of(row) == first_notna(<< row.sched_arr, row.sched_dep >>)

\* The order _apply_midnight_rollover goes through the rows of a train in:
\* by stop_seq when there is one, else by reference time, missing ones last.
traversal(rows) ==
  LET ix == 1..Len(rows)
  IN  IF \E i \in ix : rows[i].stop_seq # NaT
        THEN sort_values(ix, [i \in ix |-> rows[i].stop_seq])
        ELSE sort_values({ i \in ix : notna(ref_of(rows[i])) },
                         [i \in ix |-> ref_of(rows[i])])
             \o sort_values({ i \in ix : isna(ref_of(rows[i])) }, [i \in ix |-> i])

\* The loop of _apply_midnight_rollover from position k of the order, with the
\* greatest reference seen so far (as read, before its shift) and the days
\* added so far.
RECURSIVE rollover_from(_, _, _, _, _)
rollover_from(rows, order, k, prev, offset_days) ==
  IF k > Len(order) THEN rows
  ELSE
    LET idx == order[k]
        ref == ref_of(rows[idx])
        days == IF notna(prev) /\ notna(ref) /\ ref < prev
                  THEN offset_days + 1 ELSE offset_days
        shift(v) == IF notna(v) THEN v + Min(days * DayMin) ELSE v
        shifted == [rows EXCEPT ![idx] = [@ EXCEPT !.sched_arr = shift(@),
                                                   !.sched_dep = shift(@)]]
        prev2 == IF isna(prev) THEN ref
                 ELSE IF notna(ref) /\ ref > prev THEN ref ELSE prev
    IN  rollover_from(shifted, order, k + 1, prev2, days)

_apply_midnight_rollover(rows) ==
  rollover_from(rows, traversal(rows), 1, NaT, 0)

normFixed ==
  << edges, nodes, block_records, platform_records, radar, optVars, engineVars,
     replayOnly, extVars >>

InitNormalize ==
  /\ raw \in RawFrames
  /\ frame = << >>
  /\ pc = "raw"
  /\ edges = << >>
  /\ nodes = << >>
  /\ block_records = << >>
  /\ platform_records = << >>
  /\ radar = << >>
  /\ OptIdle
  /\ EngineIdle
  /\ ReplayIdle
  /\ ExtIdle

\* to_train_events up to the parsing of its time columns.
ParseTimes ==
  /\ pc = "raw"
  /\ frame' = _parse_times_with_service_date(zero_cleanup(raw))
  /\ pc' = "parsed"
  /\ UNCHANGED << raw, normFixed >>

\* to_train_events applies the midnight rollover to the parsed frame.
ApplyMidnightRollover ==
  /\ pc = "parsed"
  /\ frame' = _apply_midnight_rollover(frame)
  /\ pc' = "rolled"
  /\ UNCHANGED << raw, normFixed >>

NextNormalize == ParseTimes \/ ApplyMidnightRollover

SpecNormalize == InitNormalize /\ [][NextNormalize]_vars

\* C7: stops that carry, in stop_seq order, the times of day 23:50, 00:05
\* and 00:20 on one service date D come out as D 23:50, D+1 00:05, D+1 00:20.
C7_OneDayPerCrossing ==
  ( /\ pc = "rolled"
    /\ \A i \in 1..3 : raw[i].stop_seq = i
    /\ raw[1].sched_arr = TimeOfDay(23 * 60 + 50)
    /\ raw[2].sched_arr = TimeOfDay(5)
    /\ raw[3].sched_arr = TimeOfDay(20) )
  => LET d == raw[1].service_date
     IN  /\ frame[1].sched_arr = Min(d * DayMin + 23 * 60 + 50)
         /\ frame[2].sched_arr = Min((d + 1) * DayMin + 5)
         /\ frame[3].sched_arr = Min((d + 1) * DayMin + 20)

\* C8: after the rollover the reference times of the rows of a train, in
\* traversal order, never decrease.
C8_ReferenceMonotone ==
  pc = "rolled" =>
    LET order == traversal(_parse_times_with_service_date(zero_cleanup(raw)))
    IN  \A a, b \in 1..Len(order) :
          (a < b /\ notna(ref_of(frame[order[a]])) /\ notna(ref_of(frame[order[b]])))
            => ref_of(frame[order[a]]) <= ref_of(frame[order[b]])

\* ------------------------------------------------------- the HTTP service
\* The strings the service tests for emptiness: "" is the empty tuple, an
\* id the client sends is a tagged tuple, and a SHA-1 digest is tagged with
\* the value that was hashed (no two values share a digest).
EmptyString == << >>
ClientId(s) == << "id", s >>
_sha1_dict(obj) == << "sha1", obj >>

\* A file of the directory: missing, or present with its JSON value.
Missing == << >>
File(c) == << c >>
exists(f) == f # Missing

\* _read_json(path) or []: the value of the file, the empty list for a
\* missing file.
_read_json(f) == IF f = Missing THEN << >> ELSE f[1]

_plan_with_version(dir) ==
  LET plan == _read_json(dir.rec_plan)
  IN  [rec_plan |-> plan,
       plan_version |-> IF plan # << >> THEN _sha1_dict(plan) ELSE EmptyString]

\* The number of decision calls the service is followed for.
MaxDecisions == 3

\* Who calls: a station controller and an operations manager.
Principals ==
  { [user |-> "sc", role |-> "SC"], [user |-> "om", role |-> "OM"] }

\* The bodies of POST /feedback: an action with or without an action_id.
Feedbacks ==
  { [action |-> a, decision |-> d] :
      a \in { [type |-> "HOLD", train_id |-> "T2"],
              [type |-> "HOLD", train_id |-> "T2", action_id |-> ClientId("a1")] },
      d \in { "APPLY", "ACK" } }

\* The bodies of POST /apply.
ApplyReqs == { [action_id |-> ClientId("a1")] }

\* The plans rec_plan.json holds when the service starts.
StoredPlans == { p \in Plans : p = << >> \/ p[1].type = "HOLD" }

\* events_clean: T1 with one stop only, or T1 from S1 to S2.
ServerEventTables ==
  { [t \in Trains |-> IF t = "T1" THEN TrainRows(t, r, Min(0), "plain") ELSE {}] :
      r \in { << "S1" >>, << "S1", "S2" >> } }

\* The keyword arguments post_optimize and post_disruption hand to propose
\* (no locks, no heatmap); the others are at their defaults.
optimize_kwargs ==
  [horizon_min |-> Min(60), priorities |-> << >>, max_hold_min |-> 5,
   max_holds_per_train |-> 2, risk_heat |-> << >>, precedence_pins |-> << >>,
   locked_stations |-> {}, solver_available |-> FALSE, hash_slot |-> 0]

Idle == [op |-> "idle"]
in_flight == { t \in 1..workers : handler[t].op # "idle" }

\* What no handler of the service writes.
serverFixed ==
  << edges, nodes, artifacts, ENGINE, workers, pc, radar, optVars, normVars,
     engine_cfg, state, thread_alive, stop_set, ticks, seen,
     per_train_speed, platform_override, rec_plan, caller, graph, phase, todo,
     train, hops, current_time, block_heap, plat_avail, waits, horizon,
     validation, adapterVars, readerVars, moreVars >>

\* The variables of the replay, the engine, the optimiser and the normaliser
\* while the service is followed.
ServerRest ==
  /\ platform_records = << >>
  /\ pc = "service"
  /\ radar = << >>
  /\ engine_cfg = << >>
  /\ state = << >>
  /\ thread_alive = FALSE
  /\ stop_set = FALSE
  /\ ticks = 0
  /\ seen = << >>
  /\ per_train_speed = << >>
  /\ platform_override = << >>
  /\ rec_plan = << >>
  /\ caller = "-"
  /\ graph = << >>
  /\ phase = "-"
  /\ todo = << >>
  /\ train = NoTrain
  /\ hops = << >>
  /\ current_time = NaT
  /\ block_heap = << >>
  /\ plat_avail = << >>
  /\ waits = << >>
  /\ horizon = [t0 |-> NaT, t1 |-> NaT, inputs |-> "-"]
  /\ validation = << >>
  /\ OptIdle
  /\ NormIdle
  /\ AdapterIdle
  /\ ReaderIdle
  /\ MoreIdle

\* The directory with rec_plan.json missing, empty or holding a plan, and
\* none of the files the service writes.
Directories ==
  { [rec_plan |-> f, rec_plan_prev |-> Missing, audit_trail |-> Missing,
     feedback |-> Missing, conflict_radar |-> Missing, offline_rl |-> Missing] :
      f \in { Missing } \cup { File(p) : p \in StoredPlans } }

\* The service with its plan handlers, one request at a time.
InitPlan ==
  /\ edges \in { e \in EdgeTables : e["B12"].capacity = 1 }
  /\ nodes \in { n \in NodeTables : n = << >> \/ n["S1"].platforms = 1 }
  /\ events \in ServerEventTables
  /\ block_records \in EngineOccupancies
  /\ artifacts \in BOOLEAN
  /\ files \in Directories
  /\ ENGINE = FALSE
  /\ workers = 1
  /\ handler = [t \in 1..workers |-> Idle]
  /\ response = [handler |-> "-", status |-> 0]
  /\ decisions = 0
  /\ ServerRest

\* GET /recommendations: the plan_version of the stored plan.
GetRecommendations ==
  /\ response' = [handler |-> "get_recommendations", status |-> 200,
                  plan_version |-> _plan_with_version(files).plan_version]
  /\ UNCHANGED << files, handler, decisions, events, block_records, platform_records,
                  serverFixed >>

\* POST /optimize with the defaults of its body: the radar is read or
\* computed and saved, the stored plan is copied to rec_plan_prev.json,
\* propose runs and its plan is saved.  An exception of propose leaves the
\* copy behind.
post_optimize(kw, use_ga) ==
     IF ~artifacts
       THEN /\ response' = [handler |-> "post_optimize", status |-> 400]
            /\ UNCHANGED files
       ELSE \E risks \in { IF exists(files.conflict_radar)
                             THEN _read_json(files.conflict_radar)
                             ELSE analyze(edges, nodes, block_records, << >>, << >>,
                                          "none", NaT, Min(60)) } :
            \E h \in { propose(edges, nodes, block_records, risks, kw, kw.hash_slot) } :
            \E R \in { IF ga_runs(h, block_records, use_ga)
                         THEN risks_h_of(block_records, risks, kw) ELSE << >> } :
            \E best \in Chromosomes(Len(R)) :
            \E ga_plan \in { propose_ga(block_records, R, kw.max_hold_min, best) } :
            \E out \in { IF ga_runs(h, block_records, use_ga)
                           THEN with_ga(h, ga_plan, use_ga) ELSE h } :
            \E prev \in { _read_json(files.rec_plan) } :
              IF "raised" \in DOMAIN out
                THEN /\ files' = [files EXCEPT !.conflict_radar = File(risks),
                                               !.rec_plan_prev = File(prev)]
                     /\ response' = [handler |-> "post_optimize", status |-> 500]
                ELSE /\ files' = [files EXCEPT !.conflict_radar = File(risks),
                                               !.rec_plan_prev = File(prev),
                                               !.rec_plan = File(out.rec_plan)]
                     /\ response' = [handler |-> "post_optimize", status |-> 200,
                                     plan_version |-> IF out.rec_plan # << >>
                                                        THEN _sha1_dict(out.rec_plan)
                                                        ELSE EmptyString]

\* POST /optimize in a directory without locks_state.json.
PostOptimize ==
  /\ post_optimize(optimize_kwargs, FALSE)
  /\ UNCHANGED << handler, decisions, events, block_records, platform_records,
                  serverFixed >>

\* The latest observed departure, in minutes, the disruptions are followed to.
MaxActDep == 10

\* The delay of post_disruption on the rows of (train_id, station_id):
\* act_dep becomes the observed, else the scheduled, departure plus the delay.
delayed(ev, tid, sid, delay) ==
  [t \in DOMAIN ev |->
     { IF t = tid /\ r.station_id = sid
         THEN [r EXCEPT !.act_dep = IF notna(first_notna(<< r.act_dep, r.sched_dep >>))
                                      THEN first_notna(<< r.act_dep, r.sched_dep >>) + delay
                                      ELSE NaT]
         ELSE r : r \in ev[t] }]

\* replay_run(ev, graph) on the graph load_graph built: it raises when a
\* station_attr entry does not unpack into three fields, and when the origin
\* of a train with hops has no platform list; else no train has a hop and
\* the occupancies it returns are empty.
replay_run_raises(ev, g) ==
  \/ \E s \in DOMAIN g.station_attr : Len(g.station_attr[s]) # 3
  \/ \E t \in DOMAIN ev :
       \E hs \in { itinerary_from_events(ev[t], g) } :
         hs # << >> /\ hs[1][1] \notin DOMAIN g.station_attr

\* POST /disruption: the delay is written to the events, the replay, the
\* radar and the optimiser are run again, and the stored plan is copied to
\* rec_plan_prev.json before the new one is saved.
post_disruption(kw, use_ga) ==
     \E tid \in { "T1" }, sid \in { "S1", "S3" } :
       IF ~artifacts
         THEN /\ response' = [handler |-> "post_disruption", status |-> 400]
              /\ UNCHANGED << files, events, block_records, platform_records >>
       ELSE IF ~\E r \in events[tid] : r.station_id = sid
         THEN /\ response' = [handler |-> "post_disruption", status |-> 404]
              /\ UNCHANGED << files, events, block_records, platform_records >>
       ELSE \E ev \in { delayed(events, tid, sid, Min(5)) } :
            \E prev \in { _read_json(files.rec_plan) } :
              /\ \A r \in ev[tid] : r.act_dep <= Min(MaxActDep)
              /\ events' = ev
              /\ IF replay_run_raises(ev, load_graph(nodes, edges))
                   THEN /\ response' = [handler |-> "post_disruption", status |-> 500]
                        /\ UNCHANGED << files, block_records, platform_records >>
                   ELSE /\ block_records' = << >>
                        /\ platform_records' = << >>
                        /\ files' = [files EXCEPT
                             !.conflict_radar = File(<< >>),
                             !.rec_plan_prev = File(prev),
                             !.rec_plan = File(propose(edges, nodes, << >>, << >>,
                                                       kw, 0).rec_plan)]
                        /\ response' = [handler |-> "post_disruption", status |-> 200]

\* POST /disruption in a directory without locks_state.json.
PostDisruption ==
  /\ post_disruption(optimize_kwargs, FALSE)
  /\ UNCHANGED << handler, decisions, serverFixed >>

\* POST /plan/revert: rec_plan_prev.json is written over rec_plan.json.
RevertPlan ==
  /\ \E principal \in Principals :
       IF principal.role \notin { "OM", "DH", "ADM" }
         THEN /\ response' = [handler |-> "revert_plan", status |-> 403]
              /\ UNCHANGED files
       ELSE IF ~exists(files.rec_plan_prev)
         THEN /\ response' = [handler |-> "revert_plan", status |-> 404]
              /\ UNCHANGED files
       ELSE \E data \in { _read_json(files.rec_plan_prev) } :
              /\ files' = [files EXCEPT !.rec_plan = File(data)]
              /\ response' = [handler |-> "revert_plan", status |-> 200,
                              plan_version |-> _sha1_dict(data)]
  /\ UNCHANGED << handler, decisions, events, block_records, platform_records,
                  serverFixed >>

\* A variant of trail.append(entry) that puts the entry first.
append_entry_first(trail, entry) == << entry >> \o trail

\* trail.append(entry).
append_entry(trail, entry) == Append(trail, entry)

\* dict(fb.action) with its action_id derived when it has none.
with_action_id(a) ==
  IF "action_id" \in DOMAIN a THEN a
  ELSE [k \in DOMAIN a \cup { "action_id" } |->
          IF k = "action_id" THEN _sha1_dict(a) ELSE a[k]]

\* The roles require_roles lets through for a decision of POST /feedback.
feedback_roles(dec) ==
  IF dec = "ACK" THEN { "CREW", "SC", "OM", "DH", "ADM" }
  ELSE IF dec \in { "APPLY", "DISMISS", "MODIFY" } THEN { "SC", "ADM" }
  ELSE { "SC", "OM", "DH", "AN", "ADM", "CREW" }

\* POST /feedback in thread t, up to the read of the audit trail: the role
\* is checked, action_id and plan_version are derived, the trail is read.
post_feedback_read(t, bodies) ==
  /\ t \in 1..workers
  /\ handler[t].op = "idle"
  /\ decisions + Cardinality(in_flight) < MaxDecisions
  /\ \E principal \in Principals, fb \in bodies :
       IF principal.role \notin feedback_roles(fb.decision)
         THEN /\ response' = [handler |-> "post_feedback", status |-> 403]
              /\ UNCHANGED handler
         ELSE \E action \in { with_action_id(fb.action) } :
              \E pv \in { _plan_with_version(files) } :
                /\ handler' = [handler EXCEPT ![t] =
                     [op |-> "post_feedback",
                      trail |-> _read_json(files.audit_trail),
                      entry |-> [who |-> principal.user, role |-> principal.role,
                                 action_id |-> action.action_id,
                                 decision |-> fb.decision,
                                 plan_version |-> IF pv.plan_version = EmptyString
                                                    THEN _sha1_dict(pv.rec_plan)
                                                    ELSE pv.plan_version,
                                 action |-> action]]]
                /\ UNCHANGED response
  /\ UNCHANGED << files, decisions, events, block_records, platform_records,
                  serverFixed >>

PostFeedbackRead(t) == post_feedback_read(t, Feedbacks)

\* The first risk of the radar append_feedback takes for the action: one
\* that names the train, on the block of the action or at its station.
risk_of_action(radar_json, action) ==
  LET bid == get(action, "block_id", None)
      sid == IF get(action, "station_id", None) # None THEN action.station_id
             ELSE get(action, "at_station", None)
      tid == get(action, "train_id", None)
      ix == { i \in DOMAIN radar_json :
                /\ \E n \in DOMAIN radar_json[i].train_ids : radar_json[i].train_ids[n] = tid
                /\ \/ bid # None /\ get(radar_json[i], "block_id", None) = bid
                   \/ sid # None /\ sid \in { get(radar_json[i], "station_id", None),
                                              get(radar_json[i], "u", None),
                                              get(radar_json[i], "v", None) } }
  IN  IF ix = {} THEN << >> ELSE << radar_json[CHOOSE i \in ix : \A j \in ix : i <= j] >>

\* learn.hil.append_feedback on the files of the service: what
\* offline_rl.jsonl holds after the call.  The state is the generic row
\* (build_examples finds no example); the reward is in hundredths, with
\* alpha at its default 0.2.
append_feedback(dir, action, decision) ==
  IF get(action, "type", None) # "HOLD" \/ decision \notin { "APPLY", "MODIFY", "ACK" }
    THEN dir.offline_rl
  ELSE
    LET rpick == risk_of_action(_read_json(dir.conflict_radar), action)
        minutes == get(action, "minutes", 0)
        r == rpick[1]
    IN  IF rpick = << >> THEN dir.offline_rl
        ELSE File(Append(_read_json(dir.offline_rl),
               [state |-> [severity_rank |-> IF sev_rank(r) = 9 THEN 2 ELSE sev_rank(r),
                           lead_min |-> get(r, "lead_min", 0)],
                action |-> [type |-> "HOLD",
                            hold_class |-> IF 2 * minutes <= Min(5) THEN 2
                                           ELSE IF minutes <= Min(4) THEN 3 ELSE 5,
                            minutes |-> minutes],
                reward |-> (IF minutes >= get(r, "required_hold_min", 0) THEN 100 ELSE 0)
                           - (100 * minutes) \div (5 * TicksPerMin),
                info |-> [risk_type |-> r.type, block_id |-> get(r, "block_id", None),
                          station_id |-> get(r, "station_id", None),
                          train_id |-> get(action, "train_id", None),
                          decision |-> decision]]))

\* The rest of POST /feedback: the entry is appended to the trail that was
\* read, the trail is written, a row is appended to feedback.parquet, and
\* append_feedback is called.
PostFeedbackWrite(t) ==
  /\ t \in 1..workers
  /\ handler[t].op = "post_feedback"
  /\ \E entry \in { handler[t].entry } :
       /\ files' = [files EXCEPT
            !.audit_trail = File(append_entry(handler[t].trail, entry)),
            !.feedback = File(Append(_read_json(files.feedback),
                                     [user |-> entry.who, decision |-> entry.decision,
                                      plan_version |-> entry.plan_version,
                                      action_id |-> entry.action_id])),
            !.offline_rl = append_feedback(files, entry.action, entry.decision)]
       /\ response' = [handler |-> "post_feedback", status |-> 200,
                       plan_version |-> entry.plan_version,
                       action_id |-> entry.action_id]
  /\ handler' = [handler EXCEPT ![t] = Idle]
  /\ decisions' = decisions + 1
  /\ UNCHANGED << events, block_records, platform_records, serverFixed >>

\* POST /apply in thread t, up to the read of the audit trail.  Without an
\* engine it returns at once; the engine, in sandbox mode, applies nothing.
PostApplyRead(t) ==
  /\ t \in 1..workers
  /\ handler[t].op = "idle"
  /\ decisions + Cardinality(in_flight) < MaxDecisions
  /\ \E principal \in Principals, body \in ApplyReqs :
       IF principal.role \notin { "SC", "ADM" }
         THEN /\ response' = [handler |-> "post_apply", status |-> 403]
              /\ UNCHANGED handler
       ELSE IF ~ENGINE
         THEN /\ response' = [handler |-> "post_apply", status |-> 200,
                              result |-> "engine_not_running"]
              /\ UNCHANGED handler
       ELSE /\ handler' = [handler EXCEPT ![t] =
                 [op |-> "post_apply", trail |-> _read_json(files.audit_trail),
                  who |-> principal.user, role |-> principal.role,
                  action_id |-> body.action_id]]
            /\ UNCHANGED response
  /\ UNCHANGED << files, decisions, events, block_records, platform_records,
                  serverFixed >>

\* The rest of POST /apply: the entry takes its plan_version from
\* rec_plan.json when that file exists, and the trail is written.
PostApplyWrite(t) ==
  /\ t \in 1..workers
  /\ handler[t].op = "post_apply"
  /\ files' = [files EXCEPT !.audit_trail = File(append_entry(handler[t].trail,
       [who |-> handler[t].who, role |-> handler[t].role,
        action_id |-> handler[t].action_id, decision |-> "APPLY",
        plan_version |-> IF exists(files.rec_plan)
                           THEN _sha1_dict(_read_json(files.rec_plan))
                           ELSE EmptyString,
        result |-> "sandbox"]))]
  /\ response' = [handler |-> "post_apply", status |-> 200, result |-> "sandbox"]
  /\ handler' = [handler EXCEPT ![t] = Idle]
  /\ decisions' = decisions + 1
  /\ UNCHANGED << events, block_records, platform_records, serverFixed >>

NextPlan == GetRecommendations \/ PostOptimize \/ PostDisruption \/ RevertPlan

SpecPlan == InitPlan /\ [][NextPlan]_vars

\* C11: a POST /optimize or POST /disruption that saves a new plan leaves the
\* plan it replaced (the empty plan when there was none) in rec_plan_prev.json,
\* and a POST /plan/revert that follows stores that plan again and returns
\* the plan_version the service reports for it.
C11_RevertRestoresVersion ==
  [][ /\ (response'.handler \in { "post_optimize", "post_disruption" }
          /\ response'.status = 200)
         => files'.rec_plan_prev = File(_read_json(files.rec_plan))
      /\ (response'.handler = "revert_plan" /\ response'.status = 200)
         => /\ files'.rec_plan = File(_read_json(files.rec_plan_prev))
            /\ response'.plan_version = _plan_with_version(files').plan_version
    ]_vars

\* The service with its decision handlers, run by one thread or by two.
InitAudit ==
  /\ edges = << >>
  /\ nodes = << >>
  /\ events = [t \in Trains |-> {}]
  /\ block_records = << >>
  /\ artifacts = FALSE
  /\ files \in Directories
  /\ ENGINE \in BOOLEAN
  /\ workers \in { 1, 2 }
  /\ handler = [t \in 1..workers |-> Idle]
  /\ response = [handler |-> "-", status |-> 0]
  /\ decisions = 0
  /\ ServerRest

NextAudit ==
  \E t \in { 1, 2 } :
    \/ PostFeedbackRead(t) \/ PostFeedbackWrite(t)
    \/ PostApplyRead(t) \/ PostApplyWrite(t)

SpecAudit == InitAudit /\ [][NextAudit]_vars

audit_trail == _read_json(files.audit_trail)
IsPrefix(s, t) == Len(s) <= Len(t) /\ \A i \in 1..Len(s) : s[i] = t[i]

\* C12: when the decision calls run one after another (one thread runs the
\* handlers), every step leaves the audit trail it found as a prefix of the
\* trail it leaves: no entry is changed, dropped or moved.
C12_TrailOnlyGrows ==
  [][ workers = 1 =>
        IsPrefix(_read_json(files.audit_trail), _read_json(files'.audit_trail)) ]_vars

\* Two decisions, one of POST /feedback and one of POST /apply, written one
\* after the other by the only thread.
C12_Witness ==
  /\ workers = 1
  /\ Len(audit_trail) = 2
  /\ "action" \in DOMAIN audit_trail[1]
  /\ "result" \in DOMAIN audit_trail[2]

\* C13: whenever no decision handler is running, the audit trail holds one
\* entry for every decision call that returned.
C13_NoLostDecision ==
  in_flight = {} => Len(audit_trail) = decisions

\* C14: every entry of the audit trail has a non-empty action_id and a
\* non-empty plan_version.
C14_EntryPopulated ==
  \A i \in 1..Len(audit_trail) :
    /\ audit_trail[i].action_id # EmptyString
    /\ audit_trail[i].plan_version # EmptyString

\* ------------------------------------------------- the ingestion adapters
\* CircuitBreaker's defaults, with reset_sec in steps of the clock, and the
\* Deduper's maxlen, scaled down.
max_fail == 3
reset_sec == 2
maxlen == 2

\* How far the clock and the watched file are followed.
MaxNow == 5
MaxLines == 3

\* The event_key of the envelopes written to the file; a line that is not
\* the JSON of an envelope.
EventKeys == { "k1", "k2", "k3" }
BadLine == "{"

CircuitBreaker == [fail_count |-> 0, open_until |-> 0]

\* A variant of record_failure that opens the breaker without a delay.
record_failure_no_delay(b, t) ==
  [fail_count |-> b.fail_count + 1,
   open_until |-> IF b.fail_count + 1 >= max_fail THEN t ELSE b.open_until]

record_success(b) == [fail_count |-> 0, open_until |-> 0]

record_failure(b, t) ==
  [fail_count |-> b.fail_count + 1,
   open_until |-> IF b.fail_count + 1 >= max_fail THEN t + reset_sec ELSE b.open_until]

allow(b, t) == t >= b.open_until

Deduper == [keys |-> << >>, set |-> {}]

deduper_seen(d, k) == k \in d.set

\* Deduper.add: the key joins the deque (which drops its oldest key when it
\* is full) and the set; when the deque has reached maxlen its oldest half
\* leaves the deque and the set.
deduper_add(d, k) ==
  IF k \in d.set THEN d
  ELSE LET keys1 == IF Len(d.keys) = maxlen THEN Append(Tail(d.keys), k)
                    ELSE Append(d.keys, k)
           set1 == d.set \cup { k }
           n == Len(keys1) \div 2
       IN  IF Len(keys1) = maxlen
             THEN [keys |-> SubSeq(keys1, n + 1, Len(keys1)),
                   set |-> set1 \ { keys1[i] : i \in 1..n }]
             ELSE [keys |-> keys1, set |-> set1]

\* The loop of FileDropAdapter.tick over lines[i..]: a line that does not
\* parse is skipped; an envelope is emitted when _should_process lets it
\* through, which adds its key to the deduper.
RECURSIVE read_lines(_, _, _, _)
read_lines(lines, i, d, out) ==
  IF i > Len(lines) THEN [deduper |-> d, emitted |-> out]
  ELSE IF lines[i] = BadLine THEN read_lines(lines, i + 1, d, out)
  ELSE IF deduper_seen(d, lines[i]) THEN read_lines(lines, i + 1, d, out)
  ELSE read_lines(lines, i + 1, deduper_add(d, lines[i]), Append(out, lines[i]))

\* What the adapter leaves alone: everything but its own variables and pc.
adapterFixed ==
  << edges, nodes, events, block_records, platform_records, radar, optVars,
     engineVars, normVars, serverVars, per_train_speed, platform_override, rec_plan,
     caller, graph, phase, todo, train, hops, current_time, block_heap, plat_avail,
     waits, horizon, validation, readerVars, moreVars >>

InitAdapter ==
  /\ live_file = [exists |-> FALSE, readable |-> TRUE, lines |-> << >>]
  /\ offset = 0
  /\ breaker = CircuitBreaker
  /\ deduper = Deduper
  /\ emitted = << >>
  /\ now = 0
  /\ pc = "constructed"
  /\ edges = << >>
  /\ nodes = << >>
  /\ block_records = << >>
  /\ platform_records = << >>
  /\ radar = << >>
  /\ OptIdle
  /\ EngineIdle
  /\ NormIdle
  /\ ReplayIdle
  /\ ServerIdle
  /\ ReaderIdle
  /\ MoreIdle

\* FileDropAdapter.tick; pc tells how it ended.
FileDropTick ==
  /\ IF ~allow(breaker, now)
       THEN /\ pc' = "blocked"
            /\ UNCHANGED << offset, breaker, deduper, emitted >>
     ELSE IF ~live_file.exists
       THEN /\ pc' = "no_file"
            /\ UNCHANGED << offset, breaker, deduper, emitted >>
     ELSE IF ~live_file.readable
       THEN /\ pc' = "failure"
            /\ breaker' = record_failure(breaker, now)
            /\ UNCHANGED << offset, deduper, emitted >>
     ELSE \E r \in { read_lines(live_file.lines, offset + 1, deduper, emitted) } :
            /\ pc' = "success"
            /\ deduper' = r.deduper
            /\ emitted' = r.emitted
            /\ offset' = Len(live_file.lines)
            /\ breaker' = record_success(breaker)
  /\ UNCHANGED << live_file, now, adapterFixed >>

\* A producer appends a line to the file, creating it when it is missing.
WriteLine ==
  /\ Len(live_file.lines) < MaxLines
  /\ \E line \in EventKeys \cup { BadLine } :
       live_file' = [live_file EXCEPT !.exists = TRUE, !.lines = Append(@, line)]
  /\ pc' = "written"
  /\ UNCHANGED << offset, breaker, deduper, emitted, now, adapterFixed >>

\* The file stops or starts being readable (read_text raises or not).
SetReadable ==
  /\ live_file.exists
  /\ live_file' = [live_file EXCEPT !.readable = ~@]
  /\ pc' = "chmod"
  /\ UNCHANGED << offset, breaker, deduper, emitted, now, adapterFixed >>

\* Time passes.
ClockStep ==
  /\ now < MaxNow
  /\ now' = now + 1
  /\ pc' = "slept"
  /\ UNCHANGED << live_file, offset, breaker, deduper, emitted, adapterFixed >>

NextAdapter == FileDropTick \/ WriteLine \/ SetReadable \/ ClockStep

SpecAdapter == InitAdapter /\ [][NextAdapter]_vars

\* C15: no event_key is handed to the sink more than once.
C15_EmitOnce ==
  \A i, j \in 1..Len(emitted) : emitted[i] = emitted[j] => i = j

\* C16: a tick is blocked exactly while the breaker is open, and a blocked
\* tick reads and emits nothing; a failure adds one to the failure count, and
\* from the max_fail-th failure in a row the breaker is open until reset_sec
\* after that failure, and not beyond; a tick without a file leaves the breaker
\* alone; a success sets the failure count to 0.
C16_BreakerOpensAndResets ==
  [][ pc' \in { "blocked", "no_file", "failure", "success" } =>
        /\ pc' = "blocked" <=> ~allow(breaker, now)
        /\ pc' = "blocked" =>
             /\ offset' = offset /\ emitted' = emitted
             /\ deduper' = deduper /\ breaker' = breaker
        /\ pc' = "no_file" => breaker' = breaker
        /\ pc' = "failure" =>
             /\ breaker'.fail_count = breaker.fail_count + 1
             /\ breaker'.fail_count >= max_fail =>
                  \A t \in now..(MaxNow + reset_sec) :
                    allow(breaker', t) <=> t >= now + reset_sec
        /\ pc' = "success" => breaker'.fail_count = 0 /\ allow(breaker', now)
    ]_vars

\* The breaker has opened after max_fail failures and a tick was blocked by
\* it before reset_sec had passed.
C16_Witness ==
  /\ pc = "blocked"
  /\ breaker.fail_count >= max_fail
  /\ now < breaker.open_until
  /\ offset < Len(live_file.lines)

\* ------------------------------------------ the engine: failures, readers
\* Whether a step of _recompute ends in its except branch: propose raises,
\* or there is a plan from the tick before and the hysteresis raises.
recompute_failed(st, out) ==
  "raised" \in DOMAIN out \/ st.last_plan # << >>

\* C17: a tick of which a step fails leaves twin_snapshot, last_risks and
\* last_plan as they were.
C17_FailedTickKeepsState ==
  [][ (ticks' = ticks + 1 /\ artifacts) =>
        \A risks \in { analyze(edges, nodes, block_records, platform_records, << >>,
                               IF platform_records = << >> THEN "none" ELSE "platform",
                               NaT, engine_cfg.horizon_min) } :
        \A out \in { propose(edges, nodes, block_records, risks,
                             kwargs_of(engine_cfg), engine_cfg.hash_slot) } :
          recompute_failed(state, out) => state' = state ]_vars

\* What the steps of _recompute and the reader leave alone.
readerFixed ==
  << edges, nodes, block_records, platform_records, artifacts, engine_cfg,
     thread_alive, stop_set, radar, optVars, replayOnly, normVars, serverVars,
     adapterVars, moreVars >>

\* _recompute as the engine thread runs it, one assignment to the state at
\* a time.  First the artifacts are loaded and twin_snapshot is assigned;
\* without artifacts it returns and the tick is complete.
RecomputeSnapshot ==
  /\ thread_alive
  /\ ~stop_set
  /\ ticks < MaxTicks
  /\ pc = "engine"
  /\ ticks' = ticks + 1
  /\ seen' = inputs_now
  /\ IF artifacts
       THEN /\ state' = [state EXCEPT !.twin_snapshot =
                           IF block_records # << >> THEN snapshot_of(block_records) ELSE @]
            /\ pc' = "risks"
            /\ UNCHANGED published
       ELSE /\ published' = published \cup { state }
            /\ UNCHANGED << state, pc >>
  /\ UNCHANGED << view, readerFixed >>

\* Then the radar runs on the loaded frames and last_risks is assigned.
RecomputeRisks ==
  /\ pc = "risks"
  /\ state' = [state EXCEPT !.last_risks =
                 analyze(seen.edges, seen.nodes, seen.bo, seen.plat, << >>,
                         IF seen.plat = << >> THEN "none" ELSE "platform",
                         NaT, engine_cfg.horizon_min)]
  /\ pc' = "plan"
  /\ UNCHANGED << ticks, seen, view, published, readerFixed >>

\* Then the optimiser runs on last_risks and last_plan is assigned, which
\* completes the tick.
RecomputePlan ==
  /\ pc = "plan"
  /\ \E out \in { propose(seen.edges, seen.nodes, seen.bo, state.last_risks,
                          kwargs_of(engine_cfg), engine_cfg.hash_slot) } :
     \E st \in { [state EXCEPT !.last_plan =
                    IF recompute_failed(state, out) THEN << >> ELSE out.rec_plan] } :
       /\ state' = st
       /\ published' = published \cup { st }
  /\ pc' = "engine"
  /\ UNCHANGED << ticks, seen, view, readerFixed >>

\* A reader thread reads the three fields of the engine's state.
ReadState ==
  /\ view' = state
  /\ UNCHANGED << state, ticks, seen, pc, published, readerFixed >>

NextReader ==
  \/ Start \/ WriteArtifacts
  \/ RecomputeSnapshot \/ RecomputeRisks \/ RecomputePlan
  \/ ReadState

SpecReader == InitEngine /\ [][NextReader]_vars

\* C18: what a reader has read is the state some completed tick left (or the
\* state the engine was constructed with); a read during a tick is judged
\* once that tick is complete.
C18_ReaderSeesOneTick ==
  (view # << >> /\ pc = "engine") => view \in published \cup { EngineState }

\* ---------------------------------------------------- the radar's horizon
\* The resource of a risk, and its hold when it carries one.
risk_resource(r) == IF r.type = "platform_overflow" THEN r.station_id ELSE r.block_id
risk_hold(r) == IF "required_hold_min" \in DOMAIN r THEN << r.required_hold_min >> ELSE << >>
same_risk(a, b) ==
  /\ a.type = b.type
  /\ risk_resource(a) = risk_resource(b)
  /\ a.train_ids = b.train_ids
  /\ risk_hold(a) = risk_hold(b)

\* The radar of the finished replay with the inputs of the last analysis,
\* the default t0 and the horizon horizon_min.
radar_with(horizon_min) ==
  analyze(edges, nodes, block_records, platform_records, waits,
          horizon.inputs, NaT, horizon_min)

MaxRows == 2
EdgeColumns == { "u", "v", "block_id", "min_run_time", "headway", "capacity" }
EdgeRows ==
  [ u : { "S1" }, v : { "S2", "S9" }, block_id : { "B12", "B23" },
    min_run_time : { 0, Min(10) }, headway : { 0 - Min(1), Min(LongHeadway) },
    capacity : { 0, 1 } ]
EdgeFrames ==
  [ columns : { EdgeColumns, EdgeColumns \ { "capacity" }, EdgeColumns \ { "block_id" } },
    rows : UNION { [1..n -> EdgeRows] : n \in 1..MaxRows } ]
NodeColumns == { "station_id", "platforms", "min_dwell_min" }
NodeFrames ==
  [ columns : { NodeColumns, NodeColumns \ { "platforms" }, NodeColumns \ { "station_id" } },
    rows : { << [station_id |-> "S1", platforms |-> 2, min_dwell_min |-> Min(2)],
                [station_id |-> "S2", platforms |-> 1, min_dwell_min |-> Min(2)] >> } ]

\* _ensure_nodes: station_id is required; platforms and min_dwell_min get
\* their defaults.
_ensure_nodes(nodes_df) ==
  IF "station_id" \notin nodes_df.columns THEN [raised |-> "KeyError"]
  ELSE [rows |-> [i \in DOMAIN nodes_df.rows |->
          [station_id |-> nodes_df.rows[i].station_id,
           platforms |-> IF "platforms" \in nodes_df.columns
                           THEN nodes_df.rows[i].platforms ELSE 1,
           min_dwell_min |-> IF "min_dwell_min" \in nodes_df.columns
                               THEN nodes_df.rows[i].min_dwell_min ELSE Min(2)]]]

\* _ensure_edges: u, v and block_id are required; the other columns get
\* their defaults.  No value of a row is looked at.
_ensure_edges(edges_df) ==
  IF ~({ "u", "v", "block_id" } \subseteq edges_df.columns)
    THEN [raised |-> "KeyError"]
  ELSE [rows |-> [i \in DOMAIN edges_df.rows |->
          [u |-> edges_df.rows[i].u, v |-> edges_df.rows[i].v,
           block_id |-> edges_df.rows[i].block_id,
           min_run_time |-> IF "min_run_time" \in edges_df.columns
                              THEN edges_df.rows[i].min_run_time ELSE 0,
           headway |-> IF "headway" \in edges_df.columns
                         THEN edges_df.rows[i].headway ELSE 0,
           capacity |-> IF "capacity" \in edges_df.columns
                          THEN edges_df.rows[i].capacity ELSE 1]]]

\* A dict comprehension over the rows: the last row of a key stays.  keys
\* holds the key of each row.
last_row(keys, k) ==
  CHOOSE i \in DOMAIN keys : keys[i] = k /\ \A j \in DOMAIN keys : keys[j] = k => j <= i

\* load_graph on frames: the lookups of the SectionGraph, or the KeyError
\* of a frame without a required column (the nodes are looked at first).
load_graph_frames(nodes_df, edges_df) ==
  LET nrows == _ensure_nodes(nodes_df).rows
      erows == _ensure_edges(edges_df).rows
      bid == [i \in DOMAIN erows |-> erows[i].block_id]
      pair == [i \in DOMAIN erows |-> << erows[i].u, erows[i].v >>]
      sid == [i \in DOMAIN nrows |-> nrows[i].station_id]
  IN  IF "raised" \in DOMAIN _ensure_nodes(nodes_df) THEN _ensure_nodes(nodes_df)
      ELSE IF "raised" \in DOMAIN _ensure_edges(edges_df) THEN _ensure_edges(edges_df)
      ELSE   [ block_attr |->
                 [b \in { bid[i] : i \in DOMAIN erows } |->
                    << erows[last_row(bid, b)].min_run_time,
                       erows[last_row(bid, b)].headway,
                       erows[last_row(bid, b)].capacity >>],
               pair_to_block |->
                 [p \in { pair[i] : i \in DOMAIN erows } |->
                    erows[last_row(pair, p)].block_id],
               station_attr |->
                 [s \in { sid[i] : i \in DOMAIN nrows } |->
                    << nrows[last_row(sid, s)].platforms,
                       nrows[last_row(sid, s)].min_dwell_min >>] ]

InitGraph ==
  /\ edges \in EdgeFrames
  /\ nodes \in NodeFrames
  /\ pc = "load_graph"
  /\ block_records = << >>
  /\ platform_records = << >>
  /\ radar = << >>
  /\ OptIdle
  /\ EngineIdle
  /\ NormIdle
  /\ ReplayIdle
  /\ ExtIdle

\* A call of load_graph(nodes, edges): it returns the graph or raises.
LoadGraph ==
  /\ pc = "load_graph"
  /\ \E g \in { load_graph_frames(nodes, edges) } :
       IF "raised" \in DOMAIN g
         THEN pc' = "raised" /\ UNCHANGED graph
         ELSE pc' = "returned" /\ graph' = g
  /\ UNCHANGED << edges, nodes, events, per_train_speed, platform_override,
                  rec_plan, caller, phase, todo, train, hops, current_time,
                  block_heap, plat_avail, block_records, platform_records,
                  waits, radar, horizon, validation, otherVars >>

NextGraph == LoadGraph

SpecGraph == InitGraph /\ [][NextGraph]_vars

\* The faults of an edge table that are to stop the graph from being built.
unknown_endpoint(nodes_df, edges_df) ==
  \E i \in DOMAIN edges_df.rows :
    { edges_df.rows[i].u, edges_df.rows[i].v }
      \ { nodes_df.rows[k].station_id : k \in DOMAIN nodes_df.rows } # {}
duplicate_block_id(edges_df) ==
  \E i, j \in DOMAIN edges_df.rows :
    i # j /\ edges_df.rows[i].block_id = edges_df.rows[j].block_id
bad_value(edges_df) ==
  \E i \in DOMAIN edges_df.rows :
    \/ "capacity" \in edges_df.columns /\ edges_df.rows[i].capacity < 1
    \/ edges_df.rows[i].min_run_time <= 0
    \/ edges_df.rows[i].headway < 0

\* C20: load_graph returns no graph for an edge table with a block whose
\* endpoint is no station of the node table, with two rows of one block_id,
\* with a capacity below 1, a min_run_time of 0 or less, or a headway below 0.
C20_BadTopologyRejected ==
  pc = "returned" =>
    ~(\/ unknown_endpoint(nodes, edges)
      \/ duplicate_block_id(edges)
      \/ bad_value(edges))

\* ------------------------------------------------------- the station map
\* A cell of a frame: a string, a number (with the text to_csv writes for
\* it) or NaN.
StrCell(s) == [kind |-> "str", text |-> s]
IntCell(s) == [kind |-> "int", text |-> s]
FloatCell(s) == [kind |-> "float", text |-> s]
NaN == [kind |-> "nan", text |-> ""]

\* The station names of the raw frames, and the order sorted() puts their
\* str() in.
RawNames == { StrCell("AGRA"), StrCell("NA"), StrCell("12"), IntCell("12") }
NameOrder == << "12", "AGRA", "NA" >>

\* read_csv with its defaults: the fields it takes for missing values, the
\* fields it parses as numbers, and a number as a float prints.
na_values == { "", "NA" }
NumericTexts == { "12", "12.0" }
float_text(t) == IF t = "12" THEN "12.0" ELSE t
int_text(t) == IF t = "12.0" THEN "12" ELSE t

\* The key a cell is in a dict: 12 and 12.0 are one key, "12" is another.
key_of(c) == IF c.kind \in { "int", "float" } THEN [kind |-> "num", text |-> int_text(c.text)]
             ELSE c

\* read_csv of the name column: a column whose fields are all numbers or
\* missing comes back as numbers, as floats when a field is missing or has
\* a decimal point; any other column comes back as strings.
read_csv_names(texts) ==
  LET present == { i \in DOMAIN texts : texts[i] \notin na_values }
      numeric == \A i \in present : texts[i] \in NumericTexts
      floats == present # DOMAIN texts \/ \E i \in present : texts[i] # int_text(texts[i])
  IN  [i \in DOMAIN texts |->
         IF i \notin present THEN NaN
         ELSE IF ~numeric THEN StrCell(texts[i])
         ELSE IF floats THEN FloatCell(float_text(texts[i]))
         ELSE IntCell(texts[i])]

\* The station map file, read: rows of station_id (S0000 is 0) and name.
read_csv(csv) ==
  LET names == read_csv_names([i \in DOMAIN csv |-> csv[i].name])
  IN  [i \in DOMAIN csv |-> [station_id |-> csv[i].station_id, name |-> names[i]]]

\* The rows of the file csv, none when there is no file.
csv_rows(csv) == IF csv = Missing THEN << >> ELSE csv[1]

\* to_csv: every cell as its text, NaN as the empty field.
to_csv(map_df) ==
  [i \in DOMAIN map_df |->
     [station_id |-> map_df[i].station_id, name |-> map_df[i].name.text]]

\* dict(zip(names, ids)): the last row of a key stays.  A NaN is a key no
\* name is ever equal to, and is left out.
dict_zip(map_df) ==
  LET rows == { i \in DOMAIN map_df : map_df[i].name.kind # "nan" }
      keys == { key_of(map_df[i].name) : i \in rows }
  IN  [k \in keys |->
         map_df[CHOOSE i \in rows :
                       /\ key_of(map_df[i].name) = k
                       /\ \A j \in rows : key_of(map_df[j].name) = k => j <= i].station_id]

\* _ensure_station_map for the station names ser and the file csv (Missing
\* when there is none): the mapping it returns and the file it leaves.
_ensure_station_map(ser, csv) ==
  LET map_df == read_csv(csv_rows(csv))
      old == dict_zip(map_df)
      fresh == { n.text : n \in { c \in ser : key_of(c) \notin DOMAIN old } }
      unique_names == SelectSeq(NameOrder, LAMBDA t : t \in fresh)
      start_idx == Len(map_df)
      new_entries == [i \in 1..Len(unique_names) |->
                        [station_id |-> start_idx + i - 1, name |-> StrCell(unique_names[i])]]
      new == [k \in { StrCell(t) : t \in fresh } |->
                start_idx + (CHOOSE i \in 1..Len(unique_names) : unique_names[i] = k.text) - 1]
  IN  IF fresh = {}
        THEN [name_to_id |-> old, csv |-> csv]
        ELSE [name_to_id |-> [k \in DOMAIN old \cup DOMAIN new |->
                                IF k \in DOMAIN new THEN new[k] ELSE old[k]],
              csv |-> File(to_csv(map_df \o new_entries))]

\* The calls of to_train_events that share one station map file stop when
\* the file holds MaxMapRows rows.
MaxMapRows == 4

mapFixed ==
  << edges, nodes, block_records, platform_records, radar, optVars, engineVars,
     normVars, replayOnly, serverVars, adapterVars, readerVars, lockVars, loopVars >>

InitStationMap ==
  /\ station_map_csv = Missing
  /\ name_to_id = << >>
  /\ pc = "station_map"
  /\ edges = << >>
  /\ nodes = << >>
  /\ block_records = << >>
  /\ platform_records = << >>
  /\ radar = << >>
  /\ OptIdle
  /\ EngineIdle
  /\ NormIdle
  /\ ReplayIdle
  /\ ServerIdle
  /\ AdapterIdle
  /\ ReaderIdle
  /\ LockIdle
  /\ LoopIdle

\* to_train_events maps the station names of a raw frame to ids.
EnsureStationMap ==
  /\ pc = "station_map"
  /\ Len(csv_rows(station_map_csv)) < MaxMapRows
  /\ \E ser \in (SUBSET RawNames) \ { {} } :
       \E r \in { _ensure_station_map(ser, station_map_csv) } :
         /\ name_to_id' = r.name_to_id
         /\ station_map_csv' = r.csv
  /\ UNCHANGED << pc, mapFixed >>

NextStationMap == EnsureStationMap

SpecStationMap == InitStationMap /\ [][NextStationMap]_vars

\* C21: over the calls that share one station map file, a name that has an
\* id keeps it in the next call, and no two names hold one id.
C21_StationIdsStable ==
  [][ /\ \A n \in DOMAIN name_to_id \cap DOMAIN name_to_id' :
           name_to_id'[n] = name_to_id[n]
      /\ \A a, b \in DOMAIN name_to_id' :
           a # b => name_to_id'[a] # name_to_id'[b] ]_vars

\* --------------------------------------------------------- locks and pins
\* The bodies of POST /locks/resource and POST /locks/precedence.
ResourceLocks ==
  { [type |-> "platform", id |-> "S2", locked |-> TRUE],
    [type |-> "platform", id |-> "S2", locked |-> FALSE],
    [type |-> "platform", id |-> "S3", locked |-> FALSE],
    [type |-> "block", id |-> "B12", locked |-> TRUE] }
PrecedencePins == { [block_id |-> "B12", leader |-> "T2", follower |-> "T1"] }

\* A variant of read_locks that takes the lock state for empty.
read_locks_default(f) == [resource_locks |-> << >>, precedence_pins |-> << >>]

\* _read_json(locks_state.json) or the empty lock state.
read_locks(f) ==
  IF f = Missing THEN [resource_locks |-> << >>, precedence_pins |-> << >>] ELSE f[1]

\* The keyword arguments post_optimize and post_disruption hand to propose
\* with the lock state of the directory: the ids of the platform locks that
\* are locked, and the pins.
locks_kwargs(f) ==
  LET locks == read_locks(f)
  IN  [optimize_kwargs EXCEPT
         !.locked_stations =
            { locks.resource_locks[i].id : i \in
                { j \in DOMAIN locks.resource_locks :
                    /\ locks.resource_locks[j].type = "platform"
                    /\ locks.resource_locks[j].locked } },
         !.precedence_pins = locks.precedence_pins]

\* What the handlers of the lock service leave alone.
lockFixed ==
  << edges, nodes, artifacts, ENGINE, workers, pc, radar, proposal, normVars,
     engine_cfg, state, thread_alive, stop_set, ticks, seen,
     per_train_speed, platform_override, rec_plan, caller, graph, phase, todo,
     train, hops, current_time, block_heap, plat_avail, waits, horizon,
     validation, adapterVars, readerVars, mapVars, loopVars, handler, decisions >>

\* The service with a plan directory that holds no plan and no lock state.
InitLocks ==
  /\ edges \in { e \in EdgeTables : e["B12"].capacity = 1 /\ e["B12"].headway = 0 }
  /\ nodes \in { n \in NodeTables : n # << >> /\ n["S1"].platforms = 1 }
  /\ events \in { ev \in ServerEventTables : Cardinality(ev["T1"]) = 1 }
  /\ block_records \in { bo \in EngineOccupancies :
                            \A i \in DOMAIN bo : bo[i].entry_time <= Min(1) }
  /\ artifacts \in BOOLEAN
  /\ files \in { d \in Directories : d.rec_plan = Missing }
  /\ ENGINE = FALSE
  /\ workers = 1
  /\ handler = [t \in 1..workers |-> Idle]
  /\ response = [handler |-> "-", status |-> 0]
  /\ decisions = 0
  /\ ServerRest

\* POST /locks/resource: the lock replaces the locks of its (type, id) and
\* goes to the end of the list.
PostLockResource ==
  /\ \E principal \in Principals, body \in ResourceLocks :
       IF principal.role \notin { "SC", "OM", "DH", "ADM" }
         THEN /\ response' = [handler |-> "post_lock_resource", status |-> 403]
              /\ UNCHANGED << locks_state, latest_lock >>
         ELSE \E locks \in { read_locks(locks_state) } :
              \E rl \in { Append(SelectSeq(locks.resource_locks,
                                           LAMBDA x : ~(x.type = body.type /\ x.id = body.id)),
                                 body) } :
                /\ locks_state' = File([locks EXCEPT !.resource_locks = rl])
                /\ response' = [handler |-> "post_lock_resource", status |-> 200]
                /\ latest_lock' =
                     [k \in DOMAIN latest_lock \cup { << body.type, body.id >> } |->
                        IF k # << body.type, body.id >> THEN latest_lock[k]
                        ELSE IF body.locked THEN "locked" ELSE "cleared"]
  /\ UNCHANGED << files, events, block_records, platform_records, kwargs, lockFixed >>

\* POST /locks/precedence: the pin replaces its equals and goes to the end.
PostLockPrecedence ==
  /\ \E principal \in Principals, body \in PrecedencePins :
       IF principal.role \notin { "SC", "OM", "DH", "ADM" }
         THEN /\ response' = [handler |-> "post_lock_precedence", status |-> 403]
              /\ UNCHANGED locks_state
         ELSE \E locks \in { read_locks(locks_state) } :
              \E pp \in { Append(SelectSeq(locks.precedence_pins, LAMBDA x : x # body),
                                 body) } :
                /\ locks_state' = File([locks EXCEPT !.precedence_pins = pp])
                /\ response' = [handler |-> "post_lock_precedence", status |-> 200]
  /\ UNCHANGED << files, events, block_records, platform_records, kwargs, latest_lock,
                  lockFixed >>

\* POST /optimize, with or without use_ga: propose gets the locks and pins
\* of locks_state.json.  The plan calls are followed up to the first that
\* saves a plan.
PostOptimizeLocks ==
  /\ ~exists(files.rec_plan_prev)
  /\ \E kw \in { locks_kwargs(locks_state) }, use_ga \in BOOLEAN :
       /\ post_optimize(kw, use_ga)
       /\ kwargs' = IF artifacts THEN kw ELSE kwargs
  /\ UNCHANGED << events, block_records, platform_records, lockVars, lockFixed >>

\* POST /disruption, likewise.
PostDisruptionLocks ==
  /\ ~exists(files.rec_plan_prev)
  /\ \E kw \in { locks_kwargs(locks_state) }, use_ga \in BOOLEAN :
       /\ post_disruption(kw, use_ga)
       /\ kwargs' = IF response'.status = 200 THEN kw ELSE kwargs
  /\ UNCHANGED << lockVars, lockFixed >>

NextLocks ==
  PostLockResource \/ PostLockPrecedence \/ PostOptimizeLocks \/ PostDisruptionLocks

SpecLocks == InitLocks /\ [][NextLocks]_vars

\* The stations whose latest platform lock says locked.
locked_now == { k[2] : k \in { x \in DOMAIN latest_lock :
                                 x[1] = "platform" /\ latest_lock[x] = "locked" } }
reassigned(plan) ==
  { plan[i].station_id : i \in { j \in DOMAIN plan : plan[j].type = "PLATFORM_REASSIGN" } }

held_for(r) ==
  { proposal.alt_options[k].options[1].train_id :
      k \in { j \in DOMAIN proposal.alt_options :
                /\ proposal.alt_options[j].risk_ref = r
                /\ proposal.alt_options[j].options[1].type = "HOLD"
                /\ \E i \in DOMAIN proposal.rec_plan :
                     /\ proposal.rec_plan[i].type = "HOLD"
                     /\ proposal.rec_plan[i].reason = r.type
                     /\ proposal.rec_plan[i].train_id =
                          proposal.alt_options[j].options[1].train_id } }

\* The pins of the call that name the block of r and two of its trains.
pins_of(r) ==
  { kwargs.precedence_pins[i] : i \in
      { j \in DOMAIN kwargs.precedence_pins :
          /\ kwargs.precedence_pins[j].block_id = r.block_id
          /\ \E a, b \in DOMAIN r.train_ids :
               /\ r.train_ids[a] = kwargs.precedence_pins[j].leader
               /\ r.train_ids[b] = kwargs.precedence_pins[j].follower } }

\* C23: for a headway or block_capacity risk on a block with a precedence
\* pin whose leader and follower are both trains of the risk, the HOLD that
\* propose emits for the risk is on the pin's follower, never on its leader.
C23_PinnedFollowerHeld ==
  (pc = "proposed" /\ "rec_plan" \in DOMAIN proposal) =>
    \A n \in DOMAIN radar :
      radar[n].type \in { "headway", "block_capacity" } =>
        \A pin \in pins_of(radar[n]) :
          held_for(radar[n]) \subseteq { pin.follower }

\* ------------------------------------------- the strategies and the holds
\* The keyword arguments of a propose call with max_hold_min 2, 3 or 5, with
\* and without a risk heat on B12.
StrategyKwargs ==
  { kw \in [horizon_min : { Min(60) }, priorities : { << >> }, max_hold_min : { 2, 3, 5 },
            max_holds_per_train : { 2 },
            risk_heat : { << >>, [b \in {"B12"} |-> 70] },
            precedence_pins : { << >> }, locked_stations : { {} },
            solver_available : { FALSE }, hash_slot : { 0 }] : TRUE }

InitStrategy ==
  /\ edges \in EdgeTables
  /\ nodes \in NodeTables
  /\ block_records \in EngineOccupancies
  /\ platform_records = << >>
  /\ radar = << >>
  /\ pc = "occupancy"
  /\ kwargs \in StrategyKwargs
  /\ proposal = << >>
  /\ ReplayIdle
  /\ EngineIdle
  /\ NormIdle
  /\ ExtIdle

\* propose(..., use_ga=use_ga) on the occupancy and its risks: the
\* heuristic, then the search when it runs, ending with any chromosome.
ProposeStrategy ==
  /\ pc = "risks"
  /\ \E use_ga \in BOOLEAN :
     \E h \in { propose(edges, nodes, block_records, radar, kwargs, kwargs.hash_slot) } :
     \E R \in { IF ga_runs(h, block_records, use_ga)
                  THEN risks_h_of(block_records, radar, kwargs) ELSE << >> } :
     \E best \in Chromosomes(Len(R)) :
     \E ga_plan \in { propose_ga(block_records, R, kwargs.max_hold_min, best) } :
       proposal' = IF ga_runs(h, block_records, use_ga)
                     THEN with_ga(h, ga_plan, use_ga) ELSE h
  /\ pc' = "proposed"
  /\ UNCHANGED << edges, nodes, block_records, platform_records, radar, kwargs,
                  replayOnly, engineVars, normVars, extVars >>

NextStrategy == AnalyzeOccupancy \/ ProposeStrategy

SpecStrategy == InitStrategy /\ [][NextStrategy]_vars

\* C24: every HOLD of a plan propose returns, heuristic or genetic, has
\* minutes <= max_hold_min, and minutes >= 2 when max_hold_min >= 2.
C24_HoldWithinBounds ==
  (pc = "proposed" /\ "rec_plan" \in DOMAIN proposal) =>
    \A i \in DOMAIN proposal.rec_plan :
      proposal.rec_plan[i].type = "HOLD" =>
        /\ proposal.rec_plan[i].minutes <= Min(kwargs.max_hold_min)
        /\ kwargs.max_hold_min >= 2 => proposal.rec_plan[i].minutes >= Min(2)

\* ------------------------------------------------ the choice of the train
\* The HOLD actions of the proposal and the hold alternatives, in the order
\* of the loop: each pass that acts appends one of each, so the k-th hold
\* alternative carries the risk of the k-th HOLD.
plan_holds == SelectSeq(proposal.rec_plan, LAMBDA a : a.type = "HOLD")
hold_alts == SelectSeq(proposal.alt_options, LAMBDA a : a.options[1].type = "HOLD")
holds_before(k, t) == Cardinality({ j \in 1..(k - 1) : plan_holds[j].train_id = t })

\* C25: for a headway or block_capacity risk with two or more trains and no
\* matching pin, the train held has the lowest priority of the risk's
\* trains, and among those of its priority none has fewer holds in the plan
\* so far.
C25_LowestPriorityHeld ==
  (pc = "proposed" /\ "rec_plan" \in DOMAIN proposal) =>
    \A k \in DOMAIN hold_alts :
      LET r == hold_alts[k].risk_ref
          t == plan_holds[k].train_id
      IN  (/\ r.type \in { "headway", "block_capacity" }
           /\ Len(r.train_ids) >= 2
           /\ pins_of(r) = {}) =>
            \A n \in DOMAIN r.train_ids :
              LET x == r.train_ids[n]
              IN  \/ x = t
                  \/ _priority(t, kwargs.priorities) < _priority(x, kwargs.priorities)
                  \/ /\ _priority(t, kwargs.priorities) = _priority(x, kwargs.priorities)
                     /\ holds_before(k, t) <= holds_before(k, x)

\* ----------------------------------------------------- observed arrivals
\* The observed arrival of the train of the block record r at r.v.
act_arr_v(r) == station_map(sort_group(events[r.train_id]), r.v, "act_arr")

\* C26: for every hop whose destination has an observed arrival, the
\* exit_time of the hop's block record is not earlier than that arrival, and
\* neither is the train's platform arrival at the destination.
C26_NotBeforeObservedArrival ==
  \A i \in Hops :
    notna(act_arr_v(block_records[i])) =>
      /\ block_records[i].exit_time >= act_arr_v(block_records[i])
      /\ \A p \in DOMAIN platform_records :
           (/\ platform_records[p].train_id = block_records[i].train_id
            /\ platform_records[p].station_id = block_records[i].v)
           => platform_records[p].arr_platform >= act_arr_v(block_records[i])

\* ------------------------------------------------- feedback and the RL log
\* The radars of the directory: none, one with a headway risk of T1 and T2
\* on B12, one with an overflow of T3 at S3.
HilRadars ==
  { Missing,
    File(<< [type |-> "headway", block_id |-> "B12", u |-> "S1", v |-> "S2",
             train_ids |-> << "T1", "T2" >>, time_window |-> << Min(1), Min(10) >>,
             severity |-> "Critical", lead_min |-> Min(1),
             required_hold_min |-> Min(3)] >>),
    File(<< [type |-> "platform_overflow", station_id |-> "S3",
             train_ids |-> << "T3" >>, time_window |-> << Min(1), Min(10) >>,
             severity |-> "High", lead_min |-> Min(1)] >>) }

\* The bodies of POST /feedback: a HOLD of T2 for B12, a HOLD without block
\* or station, a platform reassignment; each with every decision.
HilFeedbacks ==
  { [action |-> a, decision |-> d] :
      a \in { [type |-> "HOLD", train_id |-> "T2", block_id |-> "B12",
               at_station |-> "S1", minutes |-> Min(2)],
              [type |-> "HOLD", train_id |-> "T2"],
              [type |-> "PLATFORM_REASSIGN", train_id |-> "T2", station_id |-> "S2"] },
      d \in { "APPLY", "MODIFY", "ACK", "DISMISS" } }

\* The service with its feedback handler, one request at a time.
InitHil ==
  /\ edges = << >>
  /\ nodes = << >>
  /\ events = [t \in Trains |-> {}]
  /\ block_records = << >>
  /\ artifacts = FALSE
  /\ files \in { [d EXCEPT !.conflict_radar = f] :
                   d \in { x \in Directories : x.rec_plan = Missing }, f \in HilRadars }
  /\ ENGINE = FALSE
  /\ workers = 1
  /\ handler = [t \in 1..workers |-> Idle]
  /\ response = [handler |-> "-", status |-> 0]
  /\ decisions = 0
  /\ ServerRest

PostFeedbackHil == post_feedback_read(1, HilFeedbacks)

NextHil == PostFeedbackHil \/ PostFeedbackWrite(1)

SpecHil == InitHil /\ [][NextHil]_vars

\* C27: a feedback call with decision APPLY, MODIFY or ACK on a HOLD action
\* appends exactly one transition to the offline-RL log, whatever the radar
\* file holds; a call with DISMISS or with another action appends none.
C27_OneTransitionPerHold ==
  [][ (handler[1].op = "post_feedback" /\ handler'[1].op = "idle") =>
        Len(_read_json(files'.offline_rl)) =
          Len(_read_json(files.offline_rl))
          + (IF /\ handler[1].entry.action.type = "HOLD"
                /\ handler[1].entry.decision \in { "APPLY", "MODIFY", "ACK" }
               THEN 1 ELSE 0) ]_vars

\* --------------------------------------------------------- the engine loop
\* The threads start() may make, and the ticks the loops are followed for.
MaxThreads == 3
MaxLoopTicks == 4

\* RuntimeEngine._thread: the thread start() made last (0: none), and
\* Thread.is_alive().
_thread == Len(loop)
is_alive(i) == IF i \notin DOMAIN loop THEN FALSE ELSE loop[i].at # "returned"
has_returned(i) == IF i \notin DOMAIN loop THEN FALSE ELSE loop[i].at = "returned"

\* A variant of _run without the except clause.
after_tick_uncaught(raised) == IF raised THEN "returned" ELSE "wait"

\* Where _run goes after the try block of a tick: the except clause takes
\* every Exception of the adapters and of _recompute, and the wait follows.
after_tick(raised) == "wait"

loopFixed ==
  << edges, nodes, block_records, platform_records, artifacts, engine_cfg, state,
     thread_alive, seen, pc, radar, optVars, replayOnly, normVars, serverVars,
     adapterVars, readerVars, mapVars, lockVars >>

\* An engine that was constructed: no thread, the stop event clear.
InitLoop ==
  /\ loop = << >>
  /\ ctl = [op |-> "idle", last |-> "-", timed_out |-> FALSE]
  /\ edges = << >>
  /\ nodes = << >>
  /\ block_records = << >>
  /\ platform_records = << >>
  /\ radar = << >>
  /\ pc = "loop"
  /\ OptIdle
  /\ EngineIdle
  /\ NormIdle
  /\ ReplayIdle
  /\ ServerIdle
  /\ AdapterIdle
  /\ ReaderIdle
  /\ MapIdle
  /\ LockIdle

\* start(): it returns at once while _thread is alive; else it clears the
\* stop event and starts a thread on _run.
StartCall ==
  /\ ctl.op = "idle"
  /\ IF is_alive(_thread)
       THEN UNCHANGED << loop, stop_set >>
       ELSE /\ Len(loop) < MaxThreads
            /\ stop_set' = FALSE
            /\ loop' = Append(loop, [at |-> "test", n |-> 0, raised_at |-> 0])
  /\ ctl' = [ctl EXCEPT !.last = "start"]
  /\ UNCHANGED << ticks, loopFixed >>

\* stop(), up to the join: the stop event is set.
StopCall ==
  /\ ctl.op = "idle"
  /\ stop_set' = TRUE
  /\ ctl' = [op |-> IF _thread = 0 THEN "idle" ELSE "join", last |-> "stop",
             timed_out |-> FALSE]
  /\ UNCHANGED << loop, ticks, loopFixed >>

\* join(timeout=2) returns: the thread has ended, or the two seconds have
\* passed while it is in a tick.
JoinReturn ==
  /\ ctl.op = "join"
  /\ loop[_thread].at \in { "returned", "tick" }
  /\ ctl' = [ctl EXCEPT !.op = "idle", !.timed_out = is_alive(_thread)]
  /\ UNCHANGED << loop, stop_set, ticks, loopFixed >>

\* The test of _run's while in thread i: with the stop event set _run
\* returns, else a tick begins.
LoopTest(i) ==
  /\ loop[i].at = "test"
  /\ IF stop_set
       THEN /\ loop' = [loop EXCEPT ![i].at = "returned"]
            /\ UNCHANGED ticks
       ELSE /\ ticks < MaxLoopTicks
            /\ loop' = [loop EXCEPT ![i].at = "tick", ![i].n = @ + 1]
            /\ ticks' = ticks + 1
  /\ UNCHANGED << ctl, stop_set, loopFixed >>

\* The tick of thread i ends: the adapters and _recompute returned, or one
\* of them raised.
TickEnd(i) ==
  /\ loop[i].at = "tick"
  /\ \E raised \in BOOLEAN :
       loop' = [loop EXCEPT ![i].at = after_tick(raised),
                            ![i].raised_at = IF raised THEN loop[i].n ELSE @]
  /\ UNCHANGED << ctl, stop_set, ticks, loopFixed >>

\* _stop.wait(timeout=sleep_for) of thread i returns: the event was set or
\* the time has passed.
WaitReturn(i) ==
  /\ loop[i].at = "wait"
  /\ loop' = [loop EXCEPT ![i].at = "test"]
  /\ UNCHANGED << ctl, stop_set, ticks, loopFixed >>

LoopStep == \E i \in DOMAIN loop : LoopTest(i) \/ TickEnd(i) \/ WaitReturn(i)

NextLoop == StartCall \/ StopCall \/ JoinReturn \/ LoopStep

SpecLoop == InitLoop /\ [][NextLoop]_vars

\* The threads run: each step of _run that can be taken is taken.
SpecLoopFair == SpecLoop /\ WF_vars(LoopStep)

\* C28: a thread leaves _run only from the test of the while and with the
\* stop event set, so not from a tick that raised; it begins no tick while
\* the stop event is set; and a live thread returns once the event is set.
C28_LoopEndsOnStopOnly ==
  /\ [][ \A i \in DOMAIN loop :
           /\ (loop[i].at # "returned" /\ loop'[i].at = "returned")
                => (stop_set /\ loop[i].at = "test")
           /\ (loop[i].at # "tick" /\ loop'[i].at = "tick") => ~stop_set ]_vars
  /\ \A i \in 1..MaxThreads :
       (stop_set /\ is_alive(i)) ~> has_returned(i)

\* A thread that ran a tick after one of its ticks had raised, and returned
\* after stop().
C28_Witness ==
  \E i \in DOMAIN loop :
    /\ loop[i].at = "returned"
    /\ 0 < loop[i].raised_at
    /\ loop[i].raised_at < loop[i].n
    /\ stop_set
    /\ ctl.last = "stop"

\* C30: after start() has returned and until the next stop(), the loop of
\* the engine is alive with the stop event clear, so that it keeps ticking;
\* and never are two loops alive at once.
C30_StartedLoopRuns ==
  /\ (ctl.op = "idle" /\ ctl.last = "start") => (is_alive(_thread) /\ ~stop_set)
  /\ Cardinality({ i \in DOMAIN loop : is_alive(i) }) <= 1

\* ------------------------------------------------ itineraries with a gap
\* The routes of T2: S1, S2, S3 along the blocks, and S2, S3, S1, S2, where
\* (S3, S1) is no block of the graph, so that the hops kept are (S2, S3) and
\* (S1, S2).
GapRoutes == { << "S1", "S2", "S3" >>, << "S2", "S3", "S1", "S2" >> }

\* The event rows of a train on a route: a scheduled departure at the
\* origin, and at stop k a scheduled departure sd and an observed one ad.
ItineraryRows(tid, route, odep, k, sd, ad) ==
  { [train_id |-> tid, stop_seq |-> i, station_id |-> route[i],
     sched_arr |-> NaT,
     sched_dep |-> IF i = 1 THEN odep ELSE IF i = k THEN sd ELSE NaT,
     act_arr |-> NaT,
     act_dep |-> IF i = k THEN ad ELSE NaT]
    : i \in 1..Len(route) }

ItineraryTables ==
  { [t \in Trains |->
       IF t = "T1" THEN r1 ELSE ItineraryRows(t, route, odep, k, sd, ad)]
    : r1 \in { {}, TrainRows("T1", << "S1", "S2" >>, Min(0), "plain") },
      route \in GapRoutes, odep \in { Min(0), Min(2) }, k \in { 2, 3 },
      sd \in { NaT, Min(LateSchedDep) },
      ad \in { NaT, Min(LateSchedDep) + Min(1) } }

InitItinerary ==
  /\ edges \in EdgeTables
  /\ nodes \in NodeTables
  /\ events \in ItineraryTables
  /\ per_train_speed = << >>
  /\ platform_override = << >>
  /\ rec_plan = << >>
  /\ caller = "-"
  /\ graph = << >>
  /\ pc = "init"
  /\ phase = "-"
  /\ todo = << >>
  /\ train = NoTrain
  /\ hops = << >>
  /\ current_time = NaT
  /\ block_heap = << >>
  /\ plat_avail = << >>
  /\ block_records = << >>
  /\ platform_records = << >>
  /\ waits = << >>
  /\ radar = << >>
  /\ horizon = [t0 |-> NaT, t1 |-> NaT, inputs |-> "-"]
  /\ validation = << >>
  /\ OptIdle
  /\ EngineIdle
  /\ NormIdle
  /\ ExtIdle

NextItinerary == CallRun \/ StartTrain \/ Hop \/ Finish

SpecItinerary == InitItinerary /\ [][NextItinerary]_vars

\* The departure of the train of the block record r that is known at r.u:
\* the observed one, else the scheduled one.
known_dep_u(r) ==
  first_notna(<< station_map(sort_group(events[r.train_id]), r.u, "act_dep"),
                 station_map(sort_group(events[r.train_id]), r.u, "sched_dep") >>)

\* C29: no train enters a block (u, v) before its own known departure at u,
\* also when the hops kept of its itinerary are not contiguous.
C29_NoEntryBeforeDeparture ==
  \A i \in Hops :
    notna(known_dep_u(block_records[i])) =>
      block_records[i].entry_time >= known_dep_u(block_records[i])

=============================================================================
